---- MODULE Spec2Model ----
(***************************************************************************)
(* A model of smx-dasm-rs: the section window, the name table, the flat    *)
(* record tables and the debug address tables of src/sections/mod.rs       *)
(* (files, lines, globals, locals), and the row tables and the RTTI        *)
(* type-signature decoder of src/rtti/mod.rs.                              *)
(*                                                                         *)
(* Each table object and the decoder is a little state machine of its own: *)
(* its state is the constructed object, its actions are the public methods *)
(* of the object, and the last call's arguments and return value are kept  *)
(* in a "call record" variable so that properties of the return values can *)
(* be stated as state predicates.  Offsets and indices are 0-based as in   *)
(* the code; TLA+ sequences are 1-based, hence the "+ 1" at every access.  *)
(***************************************************************************)
EXTENDS Integers, Sequences, FiniteSets, TLC

VARIABLES
    files_entries,    \* SMXDebugFilesTable.entries : rows {address, name}
    lines_entries,    \* SMXDebugLinesTable.entries : rows {address, line}
    lookup,           \* last find_file call on either table and what it returned
    globals,          \* SMXDebugGlobals.debug_symbols : {entries, address_sorted}
    global_call,      \* last find_global / ensure_sorted_addresses call
    locals,           \* SMXDebugLocals.debug_symbols : {entries, address_sorted}
    debug_methods,    \* SMXFile.debug_methods : Option<SMXDebugMethods>
    rtti_methods,     \* SMXFile.rtti_methods  : Option<SMXRTTIMethodTable>
    local_call,       \* last find_local call
    bytes,            \* SMXRTTIData.bytes : the type-signature blob
    overflow_checks,  \* build profile: TRUE = overflow checks on (debug), FALSE = release
    type_call,        \* last decoder call and what it returned
    container,        \* SMXHeader.data : the decompressed container buffer
    section,          \* SectionEntry {data_offset, size} of the section at hand
    names,            \* SMXNameTable.names : HashMap<i32, String>
    extends,          \* SMXNameTable.extends : Vec<i32>
    name_call,        \* last get_data / string_at / get_extends call
    tags,             \* SMXTagTable.tags : rows {tag, name}
    tag_cache,        \* SMXTagTable.cache : HashMap<u16, Tag>
    functions,        \* SMXCalledFunctionsTable.functions : rows {address, name}
    natives,          \* SMXNativeTable.natives (likewise publics, pubvars)
    table_call,       \* last call on the tag, called-function or native table
    row_section,      \* bytes of an rtti.* row-table section
    enum_table        \* Result<SMXRTTIEnumTable> built from row_section

filesVars   == <<files_entries, lines_entries, lookup>>
globalsVars == <<globals, global_call>>
localsVars  == <<locals, debug_methods, rtti_methods, local_call>>
typesVars   == <<bytes, overflow_checks, type_call>>
namesVars   == <<container, section, names, extends, name_call>>
tablesVars  == <<tags, tag_cache, functions, natives, table_call>>
rowsVars    == <<row_section, enum_table>>
moreVars    == <<namesVars, tablesVars, rowsVars>>
vars        == <<filesVars, globalsVars, localsVars, typesVars, moreVars>>

(***************************************************************************)
(* Bounds of the model.                                                    *)
(***************************************************************************)
MaxRows == 3            \* rows of a files / lines table
MaxSyms == 3            \* rows of a variable-symbol table
MaxMethods == 2         \* rows of a debug-method table
MaxName == 3            \* bytes of a name-table section
MaxTags == 2            \* rows of a tag / native table
MaxCalls == 2           \* add_function calls in a run
MaxEnums == 3           \* rows of an rtti.enums section

NoCall == [op |-> "none"]

Range(s) == {s[i] : i \in 1..Len(s)}

\* Non-decreasing sequences over the integer set S with at most n elements.
RECURSIVE AscendingSeqs(_, _)
AscendingSeqs(S, n) ==
    IF n = 0 THEN {<<>>}
    ELSE LET shorter == AscendingSeqs(S, n - 1)
             longest == {t \in shorter : Len(t) = n - 1}
         IN  shorter \cup
             {Append(p[1], p[2]) :
                 p \in {q \in longest \X S :
                           Len(q[1]) = 0 \/ q[1][Len(q[1])] <= q[2]}}

\* All sequences over S with at most n elements.
RECURSIVE SeqsUpTo(_, _)
SeqsUpTo(S, n) ==
    IF n = 0 THEN {<<>>}
    ELSE LET shorter == SeqsUpTo(S, n - 1)
         IN  shorter \cup
             {Append(t, a) : t \in {u \in shorter : Len(u) = n - 1}, a \in S}

(***************************************************************************)
(* .dbg.files and .dbg.lines : SMXDebugFilesTable, SMXDebugLinesTable      *)
(***************************************************************************)
FileAddrs  == {10, 20, 30}
QueryAddrs == {5, 10, 15, 20, 30, 999}

FileNameOfRow(i) == "file" \o ToString(i) \o ".sp"
LineOfRow(i)     == 41 * i

\* The files tables the model starts from: address-ascending rows, each with
\* the name the construction resolved for it.
FilesTables ==
    {[i \in 1..Len(a) |-> [address |-> a[i], name |-> FileNameOfRow(i - 1)]] :
        a \in AscendingSeqs(FileAddrs, MaxRows)}

\* The lines tables the model starts from: address-ascending rows with a
\* zero-based stored line each.
LinesTables ==
    {[i \in 1..Len(a) |-> [address |-> a[i], line |-> LineOfRow(i - 1)]] :
        a \in AscendingSeqs(FileAddrs, MaxRows)}

\* Variant of the files search that compares with < where the code has <=.
RECURSIVE FilesSearchStrict(_, _, _)
FilesSearchStrict(ents, addr, st) ==
    IF st.high - st.low > 1
    THEN LET mid == (st.low + st.high) \div 2
         IN  IF mid < 0 \/ mid >= Len(ents)
             THEN [st EXCEPT !.panicked = TRUE, !.probes = @ \cup {mid}]
             ELSE IF ents[mid + 1].address < addr
                  THEN FilesSearchStrict(ents, addr,
                           [st EXCEPT !.low = mid, !.probes = @ \cup {mid}])
                  ELSE FilesSearchStrict(ents, addr,
                           [st EXCEPT !.high = mid, !.probes = @ \cup {mid}])
    ELSE st

\* The while loop of SMXDebugFilesTable::find_file.  st = [low, high, probes,
\* panicked]; probes collects every index the loop reads entries[] at, and an
\* index outside the table is the slice-index panic.
RECURSIVE FilesSearch(_, _, _)
FilesSearch(ents, addr, st) ==
    IF st.high - st.low > 1
    THEN LET mid == (st.low + st.high) \div 2
         IN  IF mid < 0 \/ mid >= Len(ents)
             THEN [st EXCEPT !.panicked = TRUE, !.probes = @ \cup {mid}]
             ELSE IF ents[mid + 1].address <= addr
                  THEN FilesSearch(ents, addr,
                           [st EXCEPT !.low = mid, !.probes = @ \cup {mid}])
                  ELSE FilesSearch(ents, addr,
                           [st EXCEPT !.high = mid, !.probes = @ \cup {mid}])
    ELSE st

\* SMXDebugFilesTable::find_file(addr) -> Option<String>
FilesFindFile(ents, addr) ==
    LET st == FilesSearch(ents, addr,
                  [low |-> -1, high |-> Len(ents), probes |-> {}, panicked |-> FALSE])
    IN  IF st.panicked
        THEN [panicked |-> TRUE, some |-> FALSE, low |-> st.low, probes |-> st.probes,
              name |-> "", line |-> 0]
        ELSE IF st.low = -1
        THEN [panicked |-> FALSE, some |-> FALSE, low |-> -1, probes |-> st.probes,
              name |-> "", line |-> 0]
        ELSE [panicked |-> FALSE, some |-> TRUE, low |-> st.low, probes |-> st.probes,
              name |-> ents[st.low + 1].name, line |-> 0]

\* The while loop of SMXDebugLinesTable::find_file.
RECURSIVE LinesSearch(_, _, _)
LinesSearch(ents, addr, st) ==
    IF st.high - st.low > 1
    THEN LET mid == (st.low + st.high) \div 2
         IN  IF mid < 0 \/ mid >= Len(ents)
             THEN [st EXCEPT !.panicked = TRUE, !.probes = @ \cup {mid}]
             ELSE IF ents[mid + 1].address <= addr
                  THEN LinesSearch(ents, addr,
                           [st EXCEPT !.low = mid, !.probes = @ \cup {mid}])
                  ELSE LinesSearch(ents, addr,
                           [st EXCEPT !.high = mid, !.probes = @ \cup {mid}])
    ELSE st

\* SMXDebugLinesTable::find_file(addr) -> Option<u32>: Some(line + 1)
LinesFindFile(ents, addr) ==
    LET st == LinesSearch(ents, addr,
                  [low |-> -1, high |-> Len(ents), probes |-> {}, panicked |-> FALSE])
    IN  IF st.panicked
        THEN [panicked |-> TRUE, some |-> FALSE, low |-> st.low, probes |-> st.probes,
              name |-> "", line |-> 0]
        ELSE IF st.low = -1
        THEN [panicked |-> FALSE, some |-> FALSE, low |-> -1, probes |-> st.probes,
              name |-> "", line |-> 0]
        ELSE [panicked |-> FALSE, some |-> TRUE, low |-> st.low, probes |-> st.probes,
              name |-> "", line |-> ents[st.low + 1].line + 1]

(***************************************************************************)
(* .dbg.globals / .dbg.locals : SMXDebugSymbols, SMXDebugGlobals,          *)
(* SMXDebugLocals                                                          *)
(***************************************************************************)
NoSym == [name |-> "", address |-> 0, code_start |-> 0, code_end |-> 0]
None  == [some |-> FALSE, sym |-> NoSym]
Some(sym) == [some |-> TRUE, sym |-> sym]

\* SMXDebugSymbols::new: the loop pushes row_count entries, each one decoded
\* by DebugVarEntry::new from a fresh copy of the whole section data, so every
\* entry is the same row; address_sorted is an empty vector that only has
\* capacity reserved.
DebugSymbolsNew(row, row_count) ==
    [entries |-> [i \in 1..row_count |-> row], address_sorted |-> <<>>]

\* SMXDebugMethods::new: row_count entries, each one decoded by
\* DebugMethodEntry::new from a fresh copy of the whole section data.
DebugMethodsNew(row, row_count) == [i \in 1..row_count |-> row]

\* One insertion of the stable sort by |a, b| b.address.cmp(&a.address):
\* x goes behind every element whose address is >= its own.
RECURSIVE InsertByAddressDesc(_, _)
InsertByAddressDesc(s, x) ==
    IF s = <<>> THEN <<x>>
    ELSE IF Head(s).address >= x.address
         THEN <<Head(s)>> \o InsertByAddressDesc(Tail(s), x)
         ELSE <<x>> \o s

\* Vec::sort_by(|a, b| b.address.cmp(&a.address)): stable, descending address.
RECURSIVE SortByAddressDesc(_)
SortByAddressDesc(s) ==
    IF s = <<>> THEN <<>>
    ELSE InsertByAddressDesc(SortByAddressDesc(SubSeq(s, 1, Len(s) - 1)), s[Len(s)])

\* SMXDebugSymbols::ensure_sorted_addresses: returns at once when
\* address_sorted is not empty, else sorts address_sorted in place.
EnsureSortedAddresses(syms) ==
    IF syms.address_sorted # <<>>
    THEN syms
    ELSE [syms EXCEPT !.address_sorted = SortByAddressDesc(syms.address_sorted)]

\* Variant of the scan in which the last entry of the working copy covers
\* every address above its own.
RECURSIVE FindGlobalScanLastUnbounded(_, _, _)
FindGlobalScanLastUnbounded(sorted, addr, i) ==
    IF i >= Len(sorted) THEN None
    ELSE LET sym == sorted[i + 1]
         IN  IF sym.address = addr THEN Some(sym)
             ELSE IF addr < sym.address THEN None
             ELSE IF i = Len(sorted) - 1 THEN Some(sym)
             ELSE IF addr > sym.address /\ addr < sorted[i + 2].address
                  THEN Some(sym)
                  ELSE FindGlobalScanLastUnbounded(sorted, addr, i + 1)

\* The for loop of SMXDebugGlobals::find_global from index i on.
RECURSIVE FindGlobalScan(_, _, _)
FindGlobalScan(sorted, addr, i) ==
    IF i >= Len(sorted) THEN None
    ELSE LET sym == sorted[i + 1]
         IN  IF sym.address = addr THEN Some(sym)
             ELSE IF addr < sym.address THEN None
             ELSE IF i = Len(sorted) - 1 THEN None
             ELSE IF addr > sym.address /\ addr < sorted[i + 2].address
                  THEN Some(sym)
                  ELSE FindGlobalScan(sorted, addr, i + 1)

\* find_global's answer once ensure_sorted_addresses has run on syms: the
\* scan of syms.address_sorted.
FindGlobal(syms, addr) == FindGlobalScan(syms.address_sorted, addr, 0)

\* Option<T>: None, or Some(v)
OptNone    == [some |-> FALSE, v |-> <<>>]
OptSome(v) == [some |-> TRUE, v |-> v]

\* Variant of the method loop with the pcode range closed at its start.
RECURSIVE EnclosingMethodClosed(_, _, _, _)
EnclosingMethodClosed(dm, rm, code_addr, i) ==
    IF i >= Len(dm) THEN [panicked |-> FALSE, found |-> FALSE, index |-> 0]
    ELSE IF dm[i + 1].method_index < 0 \/ dm[i + 1].method_index >= Len(rm)
    THEN [panicked |-> TRUE, found |-> FALSE, index |-> 0]
    ELSE IF code_addr >= rm[dm[i + 1].method_index + 1].pcode_start
            /\ code_addr < rm[dm[i + 1].method_index + 1].pcode_end
    THEN [panicked |-> FALSE, found |-> TRUE, index |-> i]
    ELSE EnclosingMethodClosed(dm, rm, code_addr, i + 1)

\* The method loop of SMXDebugLocals::find_local from debug method i on:
\* the first debug method whose RTTI range has pcode_start < code_addr <
\* pcode_end.  Indexing methods_ref() outside the RTTI table panics.
RECURSIVE EnclosingMethod(_, _, _, _)
EnclosingMethod(dm, rm, code_addr, i) ==
    IF i >= Len(dm) THEN [panicked |-> FALSE, found |-> FALSE, index |-> 0]
    ELSE LET method_index == dm[i + 1].method_index
         IN  IF method_index < 0 \/ method_index >= Len(rm)
             THEN [panicked |-> TRUE, found |-> FALSE, index |-> 0]
             ELSE IF code_addr > rm[method_index + 1].pcode_start
                     /\ code_addr < rm[method_index + 1].pcode_end
                  THEN [panicked |-> FALSE, found |-> TRUE, index |-> i]
                  ELSE EnclosingMethod(dm, rm, code_addr, i + 1)

\* Variant of the symbol loop without the code-range filter.
RECURSIVE FindLocalScanUnfiltered(_, _, _, _, _, _)
FindLocalScanUnfiltered(ents, code_addr, addr, i, stop_at, seen) ==
    IF i >= stop_at
    THEN [panicked |-> FALSE, some |-> FALSE, index |-> -1, examined |-> seen]
    ELSE IF i < 0 \/ i >= Len(ents)
    THEN [panicked |-> TRUE, some |-> FALSE, index |-> -1, examined |-> seen]
    ELSE IF ents[i + 1].address = addr
    THEN [panicked |-> FALSE, some |-> TRUE, index |-> i,
          examined |-> seen \cup {i}]
    ELSE IF i = stop_at - 1
    THEN [panicked |-> FALSE, some |-> FALSE, index |-> -1,
          examined |-> seen \cup {i}]
    ELSE IF i + 1 >= Len(ents)
    THEN [panicked |-> TRUE, some |-> FALSE, index |-> -1,
          examined |-> seen \cup {i}]
    ELSE IF addr > ents[i + 1].address /\ addr < ents[i + 2].address
    THEN [panicked |-> FALSE, some |-> TRUE, index |-> i,
          examined |-> seen \cup {i, i + 1}]
    ELSE FindLocalScanUnfiltered(ents, code_addr, addr, i + 1, stop_at,
                                 seen \cup {i, i + 1})

\* The symbol loop of find_local over start_at..stop_at from index i on;
\* seen collects the indices entries_ref() was read at.
RECURSIVE FindLocalScan(_, _, _, _, _, _)
FindLocalScan(ents, code_addr, addr, i, stop_at, seen) ==
    IF i >= stop_at
    THEN [panicked |-> FALSE, some |-> FALSE, index |-> -1, examined |-> seen]
    ELSE IF i < 0 \/ i >= Len(ents)
    THEN [panicked |-> TRUE, some |-> FALSE, index |-> -1, examined |-> seen]
    ELSE LET sym == ents[i + 1]
         IN  IF code_addr < sym.code_start \/ code_addr >= sym.code_end
             THEN FindLocalScan(ents, code_addr, addr, i + 1, stop_at, seen \cup {i})
             ELSE IF sym.address = addr
             THEN [panicked |-> FALSE, some |-> TRUE, index |-> i,
                   examined |-> seen \cup {i}]
             ELSE IF i = stop_at - 1
             THEN [panicked |-> FALSE, some |-> FALSE, index |-> -1,
                   examined |-> seen \cup {i}]
             ELSE IF i + 1 >= Len(ents)
             THEN [panicked |-> TRUE, some |-> FALSE, index |-> -1,
                   examined |-> seen \cup {i}]
             ELSE IF addr > sym.address /\ addr < ents[i + 2].address
             THEN [panicked |-> FALSE, some |-> TRUE, index |-> i,
                   examined |-> seen \cup {i, i + 1}]
             ELSE FindLocalScan(ents, code_addr, addr, i + 1, stop_at,
                                seen \cup {i, i + 1})

\* Variant of the window that runs to the end of the table for every method.
FindLocalWindowToEnd(ents, dm, rm, code_addr) ==
    LET whole == [panicked |-> FALSE, narrowed |-> FALSE,
                  start_at |-> 0, stop_at |-> Len(ents)]
    IN  IF dm.some /\ rm.some
        THEN LET m == EnclosingMethod(dm.v, rm.v, code_addr, 0)
             IN  IF m.panicked THEN [whole EXCEPT !.panicked = TRUE]
                 ELSE IF ~m.found THEN whole
                 ELSE [panicked |-> FALSE, narrowed |-> TRUE,
                       start_at |-> dm.v[m.index + 1].first_local,
                       stop_at  |-> Len(ents)]
        ELSE whole

\* The search window [start_at, stop_at) find_local settles on before it
\* scans the symbols.
FindLocalWindow(ents, dm, rm, code_addr) ==
    LET whole == [panicked |-> FALSE, narrowed |-> FALSE,
                  start_at |-> 0, stop_at |-> Len(ents)]
    IN  IF dm.some /\ rm.some
        THEN LET m == EnclosingMethod(dm.v, rm.v, code_addr, 0)
             IN  IF m.panicked THEN [whole EXCEPT !.panicked = TRUE]
                 ELSE IF ~m.found THEN whole
                 ELSE [panicked |-> FALSE, narrowed |-> TRUE,
                       start_at |-> dm.v[m.index + 1].first_local,
                       stop_at  |-> IF m.index # Len(dm.v) - 1
                                    THEN dm.v[m.index + 2].first_local
                                    ELSE Len(ents)]
        ELSE whole

\* SMXDebugLocals::find_local(code_addr, addr) -> Option<DebugVarEntry>
FindLocal(ents, dm, rm, code_addr, addr) ==
    LET w == FindLocalWindow(ents, dm, rm, code_addr)
    IN  IF w.panicked
        THEN [panicked |-> TRUE, some |-> FALSE, index |-> -1, sym |-> NoSym,
              examined |-> {}, start_at |-> w.start_at, stop_at |-> w.stop_at]
        ELSE LET r == FindLocalScan(ents, code_addr, addr, w.start_at, w.stop_at, {})
             IN  [panicked |-> r.panicked, some |-> r.some, index |-> r.index,
                  sym |-> IF r.some THEN ents[r.index + 1] ELSE NoSym,
                  examined |-> r.examined,
                  start_at |-> w.start_at, stop_at |-> w.stop_at]

(***************************************************************************)
(* RTTI type signatures : CB, SMXRTTIData, TypeBuilder                     *)
(***************************************************************************)
CB_BOOL        == 1
CB_INT32       == 6
CB_FLOAT32     == 12
CB_CHAR8       == 14
CB_ANY         == 16
CB_TOPFUNCTION == 17
CB_FIXEDARRAY  == 48
CB_ARRAY       == 49
CB_FUNCTION    == 50
CB_ENUM        == 66
CB_TYPEDEF     == 67
CB_TYPESET     == 68
CB_STRUCT      == 69
CB_ENUMSTRUCT  == 70
CB_VOID        == 112
CB_VARIADIC    == 113
CB_BYREF       == 114
CB_CONST       == 115
CB_TYPEID_INLINE  == 0
CB_TYPEID_COMPLEX == 1

\* The already-decoded reference tables of the file the decoder indexes by
\* the index read from the stream: names of the rows, in table order.
rtti_enums        == <<"Action", "Plugin_Status">>
rtti_typedefs     == <<"Timer", "SortFunc">>
rtti_typesets     == <<"EventHook", "SQLCallback">>
rtti_classdefs    == <<"Handle", "StringMap">>
rtti_enum_structs == <<"Point", "Rect">>

\* a | b on u32 values, bit by bit
RECURSIVE BitOr(_, _)
BitOr(a, b) ==
    IF a = 0 THEN b
    ELSE IF b = 0 THEN a
    ELSE (IF a % 2 = 1 \/ b % 2 = 1 THEN 1 ELSE 0) + 2 * BitOr(a \div 2, b \div 2)

\* How a call ended: "none" (it returned), or the panic that aborted it.
PanicBytes == "index out of bounds: bytes"
PanicShift == "attempt to shift left with overflow"
PanicTable == "index out of bounds: reference table"

\* (b & 0x7f) << shift, evaluated in u8 as the code does (the cast to u32
\* follows the shift): the bits shifted past bit 7 are lost; a shift of 8 or
\* more panics with overflow checks on and is taken modulo 8 without.
ShlU8(b, shift) ==
    IF shift >= 8 /\ overflow_checks
    THEN [panic |-> PanicShift, v |-> 0]
    ELSE [panic |-> "none", v |-> ((b % 128) * (2 ^ (shift % 8))) % 256]

\* The loop of CB::decode_u32 with the accumulated value and the shift.
RECURSIVE DecodeU32Loop(_, _, _, _)
DecodeU32Loop(bs, offset, value, shift) ==
    IF offset < 0 \/ offset >= Len(bs)
    THEN [panic |-> PanicBytes, value |-> value, offset |-> offset]
    ELSE LET b    == bs[offset + 1]
             term == ShlU8(b, shift)
         IN  IF term.panic # "none"
             THEN [panic |-> term.panic, value |-> value, offset |-> offset + 1]
             ELSE IF b \div 128 = 0
                  THEN [panic |-> "none", value |-> BitOr(value, term.v),
                        offset |-> offset + 1]
                  ELSE DecodeU32Loop(bs, offset + 1, BitOr(value, term.v), shift + 7)

\* CB::decode_u32(bytes, &mut offset) -> i32
DecodeU32(bs, offset) == DecodeU32Loop(bs, offset, 0, 0)

\* TypeBuilder::match(b): consumes the byte at the cursor when it equals b.
Match(bs, offset, b) ==
    IF offset < 0 \/ offset >= Len(bs)
    THEN [panic |-> PanicBytes, hit |-> FALSE, offset |-> offset]
    ELSE IF bs[offset + 1] # b
         THEN [panic |-> "none", hit |-> FALSE, offset |-> offset]
         ELSE [panic |-> "none", hit |-> TRUE, offset |-> offset + 1]

\* A TypeBuilder call's outcome: the rendered text and the builder's fields.
Built(text, offset, is_const) ==
    [panic |-> "none", text |-> text, offset |-> offset, is_const |-> is_const]
Aborted(why, offset, is_const) ==
    [panic |-> why, text |-> "", offset |-> offset, is_const |-> is_const]

\* The only value of a one-element set.  Below, "x \in {e}" names the value
\* of a call e once, for the several places that use it.
The(S) == CHOOSE x \in S : TRUE

\* table[index as usize].name.clone() after decode_u32 read the index
NamedRef(bs, offset, is_const, table) ==
    The({IF ix.panic # "none" THEN Aborted(ix.panic, ix.offset, is_const)
         ELSE IF ix.value >= Len(table) THEN Aborted(PanicTable, ix.offset, is_const)
         ELSE Built(table[ix.value + 1], ix.offset, is_const)
         : ix \in {DecodeU32(bs, offset)}})

\* Vec<String>::join(sep)
RECURSIVE Join(_, _)
Join(strs, sep) ==
    IF strs = <<>> THEN ""
    ELSE IF Len(strs) = 1 THEN strs[1]
    ELSE strs[1] \o sep \o Join(Tail(strs), sep)

RECURSIVE Decode(_, _, _)
RECURSIVE DecodeNew(_, _, _)
RECURSIVE DecodeFunction(_, _, _)
RECURSIVE DecodeArgs(_, _, _, _, _)

\* Variant of decode_new that does not clear is_const before decoding.
DecodeNewKeepsFlag(bs, offset, is_const) ==
    The({IF r.panic # "none" THEN Aborted(r.panic, r.offset, r.is_const)
         ELSE Built(IF r.is_const THEN "const " \o r.text ELSE r.text,
                    r.offset, is_const)
         : r \in {Decode(bs, offset, is_const)}})

\* TypeBuilder::decode_new: decode one type with is_const cleared, prefix
\* "const " when the decode set it, restore the caller's is_const.
DecodeNew(bs, offset, is_const) ==
    The({IF r.panic # "none" THEN Aborted(r.panic, r.offset, r.is_const)
         ELSE Built(IF r.is_const THEN "const " \o r.text ELSE r.text,
                    r.offset, is_const)
         : r \in {Decode(bs, offset, FALSE)}})

\* format!("{}[{}]", inner, index) once the element type is decoded
FixedArrayOf(bs, ix, c) ==
    The({IF inner.panic # "none" THEN inner
         ELSE Built(inner.text \o "[" \o ToString(ix.value) \o "]",
                    inner.offset, inner.is_const)
         : inner \in {Decode(bs, ix.offset, c)}})

\* The match on the tag byte b in decode; off is the cursor past the tag and
\* c the is_const flag after the CONST match.
DecodeTag(bs, b, off, c) ==
    IF b = CB_BOOL             THEN Built("bool", off, c)
    ELSE IF b = CB_INT32       THEN Built("int", off, c)
    ELSE IF b = CB_FLOAT32     THEN Built("float", off, c)
    ELSE IF b = CB_CHAR8       THEN Built("char", off, c)
    ELSE IF b = CB_ANY         THEN Built("any", off, c)
    ELSE IF b = CB_TOPFUNCTION THEN Built("Function", off, c)
    ELSE IF b = CB_FIXEDARRAY
    THEN The({IF ix.panic # "none" THEN Aborted(ix.panic, ix.offset, c)
              ELSE FixedArrayOf(bs, ix, c)
              : ix \in {DecodeU32(bs, off)}})
    ELSE IF b = CB_ARRAY
    THEN The({IF inner.panic # "none" THEN inner
              ELSE Built(inner.text \o "[]", inner.offset, inner.is_const)
              : inner \in {Decode(bs, off, c)}})
    ELSE IF b = CB_ENUM       THEN NamedRef(bs, off, c, rtti_enums)
    ELSE IF b = CB_TYPEDEF    THEN NamedRef(bs, off, c, rtti_typedefs)
    ELSE IF b = CB_TYPESET    THEN NamedRef(bs, off, c, rtti_typesets)
    ELSE IF b = CB_STRUCT     THEN NamedRef(bs, off, c, rtti_classdefs)
    ELSE IF b = CB_FUNCTION   THEN DecodeFunction(bs, off, c)
    ELSE IF b = CB_ENUMSTRUCT THEN NamedRef(bs, off, c, rtti_enum_structs)
    ELSE Built("unknown type code: " \o ToString(b), off, c)

\* TypeBuilder::decode: is_const |= match(CONST), read the tag byte, match on it
Decode(bs, offset, is_const) ==
    The({IF m.panic # "none" THEN Aborted(m.panic, offset, is_const)
         ELSE IF m.offset >= Len(bs)
         THEN Aborted(PanicBytes, m.offset, is_const \/ m.hit)
         ELSE DecodeTag(bs, bs[m.offset + 1], m.offset + 1, is_const \/ m.hit)
         : m \in {Match(bs, offset, CB_CONST)}})

\* Variant of the argument round that drops the "&" of a by-reference
\* argument.
DecodeArgNoByref(bs, m, is_const, n, argv) ==
    The({IF t.panic # "none"
         THEN [panic |-> t.panic, argv |-> argv, offset |-> t.offset,
               is_const |-> t.is_const]
         ELSE DecodeArgs(bs, t.offset, is_const, n - 1, Append(argv, t.text))
         : t \in {DecodeNew(bs, m.offset, is_const)}})

\* One round of the argument loop of decode_function after match(BYREF):
\* n arguments are still to decode, argv holds the ones decoded so far.
DecodeArg(bs, m, is_const, n, argv) ==
    The({IF t.panic # "none"
         THEN [panic |-> t.panic, argv |-> argv, offset |-> t.offset,
               is_const |-> t.is_const]
         ELSE DecodeArgs(bs, t.offset, is_const, n - 1,
                         Append(argv, IF m.hit THEN t.text \o "&" ELSE t.text))
         : t \in {DecodeNew(bs, m.offset, is_const)}})

\* The argument loop of decode_function.
DecodeArgs(bs, offset, is_const, n, argv) ==
    IF n = 0
    THEN [panic |-> "none", argv |-> argv, offset |-> offset, is_const |-> is_const]
    ELSE The({IF m.panic # "none"
              THEN [panic |-> m.panic, argv |-> argv, offset |-> offset,
                    is_const |-> is_const]
              ELSE DecodeArg(bs, m, is_const, n, argv)
              : m \in {Match(bs, offset, CB_BYREF)}})

\* The rest of decode_function once the return type is decoded.
DecodeSignature(bs, ret, is_const, argc, variadic) ==
    IF ret.panic # "none" THEN ret
    ELSE The({IF args.panic # "none"
              THEN Aborted(args.panic, args.offset, args.is_const)
              ELSE Built("function " \o ret.text \o " (" \o Join(args.argv, ", ")
                             \o (IF variadic THEN "..." ELSE "") \o ")",
                         args.offset, is_const)
              : args \in {DecodeArgs(bs, ret.offset, is_const, argc, <<>>)}})

\* TypeBuilder::decode_function
DecodeFunction(bs, offset, is_const) ==
    IF offset < 0 \/ offset >= Len(bs) THEN Aborted(PanicBytes, offset, is_const)
    ELSE
    LET argc == bs[offset + 1]
        o1   == offset + 1
    IN  IF o1 >= Len(bs) THEN Aborted(PanicBytes, o1, is_const)
        ELSE
        LET variadic == bs[o1 + 1] = CB_VARIADIC
            o2       == IF variadic THEN o1 + 1 ELSE o1
        IN  IF o2 >= Len(bs) THEN Aborted(PanicBytes, o2, is_const)
            ELSE The({DecodeSignature(bs, ret, is_const, argc, variadic)
                      : ret \in {IF bs[o2 + 1] = CB_VOID
                                 THEN Built("void", o2 + 1, is_const)
                                 ELSE DecodeNew(bs, o2, is_const)}})

\* Variant of the inline bytes with the high byte first.
InlineBytesBigEndian(payload) ==
    <<(payload \div 16777216) % 256, (payload \div 65536) % 256,
      (payload \div 256) % 256, payload % 256>>

\* The four bytes type_from_id rebuilds from the 28-bit payload, low byte
\* first.
InlineBytes(payload) ==
    <<payload % 256, (payload \div 256) % 256,
      (payload \div 65536) % 256, (payload \div 16777216) % 256>>

\* SMXRTTIData::build_type_name(offset): a fresh builder at offset, decode_new
BuildTypeName(bs, offset) == DecodeNew(bs, offset, FALSE)

\* SMXRTTIData::type_from_id(type_id) for an i32 type_id: kind = type_id & 0xf,
\* payload = (type_id >> 4) & 0xfffffff (arithmetic shift, then mask).
TypeFromId(bs, type_id) ==
    LET kind    == type_id % 16
        payload == (type_id \div 16) % 268435456
    IN  IF kind = CB_TYPEID_INLINE
        THEN DecodeNew(InlineBytes(payload), 0, FALSE)
        ELSE IF kind # CB_TYPEID_COMPLEX
        THEN Built("Unknown type_id kind: " \o ToString(kind), 0, FALSE)
        ELSE BuildTypeName(bs, payload)

\* SMXRTTIData::function_type_from_offset(offset)
FunctionTypeFromOffset(bs, offset) == DecodeFunction(bs, offset, FALSE)

\* The for loop of typeset_types_from_offset: n types are still to decode
\* with the one builder, types holds the ones decoded so far.
RECURSIVE TypesetLoop(_, _, _, _)
TypesetLoop(bs, offset, n, types) ==
    IF n <= 0 THEN [panic |-> "none", types |-> types, offset |-> offset]
    ELSE The({IF t.panic # "none"
              THEN [panic |-> t.panic, types |-> types, offset |-> t.offset]
              ELSE TypesetLoop(bs, t.offset, n - 1, Append(types, t.text))
              : t \in {DecodeNew(bs, offset, FALSE)}})

\* SMXRTTIData::typeset_types_from_offset(offset): the count is decoded with a
\* clone of offset, and the builder is then created at offset itself.
TypesetTypesFromOffset(bs, offset) ==
    The({IF count.panic # "none"
         THEN [panic |-> count.panic, types |-> <<>>, offset |-> offset]
         ELSE TypesetLoop(bs, offset, count.value, <<>>)
         : count \in {DecodeU32(bs, offset)}})

(***************************************************************************)
(* The type-signature grammar as the format defines it: type terms, their  *)
(* encoding and their rendering.  The streams the decoder is run on are    *)
(* built from these, and the claims compare the decoder's output with the  *)
(* rendering of the term a stream encodes.                                 *)
(***************************************************************************)
MaxDepth  == 2          \* nesting of array types in the generated streams
MaxArgc   == 2          \* arguments of the generated function signatures
MaxTypes  == 2          \* types of the generated typesets
MaxVarint == 3          \* bytes of the generated variable-length integers

Prim(tag)     == [k |-> "prim",  a |-> tag,           n |-> 0,  sub |-> <<>>]
Ref(tag, ix)  == [k |-> "ref",   a |-> tag,           n |-> ix, sub |-> <<>>]
Arr(t)        == [k |-> "array", a |-> CB_ARRAY,      n |-> 0,  sub |-> <<t>>]
Fixed(n, t)   == [k |-> "fixed", a |-> CB_FIXEDARRAY, n |-> n,  sub |-> <<t>>]
Const(t)      == [k |-> "const", a |-> CB_CONST,      n |-> 0,  sub |-> <<t>>]

\* little-endian base-128: 7 bits per byte, high bit set on all but the last
RECURSIVE EncodeU32(_)
EncodeU32(n) ==
    IF n < 128 THEN <<n>> ELSE <<128 + (n % 128)>> \o EncodeU32(n \div 128)

RECURSIVE Encode(_)
Encode(t) ==
    IF t.k = "prim" THEN <<t.a>>
    ELSE IF t.k = "ref" THEN <<t.a>> \o EncodeU32(t.n)
    ELSE IF t.k = "fixed" THEN <<t.a>> \o EncodeU32(t.n) \o Encode(t.sub[1])
    ELSE <<t.a>> \o Encode(t.sub[1])

PrimName(tag) ==
    IF tag = CB_BOOL THEN "bool"
    ELSE IF tag = CB_INT32 THEN "int"
    ELSE IF tag = CB_FLOAT32 THEN "float"
    ELSE IF tag = CB_CHAR8 THEN "char"
    ELSE IF tag = CB_ANY THEN "any"
    ELSE "Function"

RefName(tag, ix) ==
    IF tag = CB_ENUM THEN rtti_enums[ix + 1]
    ELSE IF tag = CB_TYPEDEF THEN rtti_typedefs[ix + 1]
    ELSE IF tag = CB_TYPESET THEN rtti_typesets[ix + 1]
    ELSE IF tag = CB_STRUCT THEN rtti_classdefs[ix + 1]
    ELSE rtti_enum_structs[ix + 1]

RECURSIVE Render(_)
Render(t) ==
    IF t.k = "prim" THEN PrimName(t.a)
    ELSE IF t.k = "ref" THEN RefName(t.a, t.n)
    ELSE IF t.k = "array" THEN Render(t.sub[1]) \o "[]"
    ELSE IF t.k = "fixed" THEN Render(t.sub[1]) \o "[" \o ToString(t.n) \o "]"
    ELSE "const " \o Render(t.sub[1])

PrimTags == {CB_BOOL, CB_INT32, CB_FLOAT32, CB_CHAR8, CB_ANY, CB_TOPFUNCTION}
RefTags  == {CB_ENUM, CB_TYPEDEF, CB_TYPESET, CB_STRUCT, CB_ENUMSTRUCT}

PrimTerms   == {Prim(t) : t \in PrimTags}
RefTerms    == {Ref(t, ix) : t \in RefTags, ix \in {0, 1}}
BaseTerms   == {Prim(CB_INT32), Prim(CB_FLOAT32), Ref(CB_ENUM, 1)}
FixedCounts == {4, 200, 256}

\* array and fixed-array types of nesting 1..d over the element types S
RECURSIVE Arrays(_, _)
Arrays(S, d) ==
    IF d = 0 THEN {}
    ELSE LET inner == S \cup Arrays(S, d - 1)
         IN  {Arr(t) : t \in inner} \cup {Fixed(n, t) : n \in FixedCounts, t \in inner}

ConstFreeTerms == PrimTerms \cup RefTerms \cup Arrays(BaseTerms, MaxDepth)
TypeTerms      == ConstFreeTerms \cup {Const(t) : t \in ConstFreeTerms}

\* <<encoding, rendering>> of every generated type term
TypePairs == {<<Encode(t), Render(t)>> : t \in TypeTerms}
TypeBlobs == {p[1] : p \in TypePairs}

\* Function signatures: variadic flag, return type (<<>> for void, else
\* <<term>>) and arguments <<byref, term>>.
ArgTypes  == {Prim(CB_INT32), Prim(CB_FLOAT32), Prim(CB_ANY)}
RetTypes  == {<<>>, <<Prim(CB_CHAR8)>>, <<Const(Prim(CB_INT32))>>,
              <<Fixed(200, Prim(CB_FLOAT32))>>}
FuncTerms ==
    [variadic : BOOLEAN, ret : RetTypes,
     args : SeqsUpTo(BOOLEAN \X ArgTypes, MaxArgc)]

RECURSIVE EncodeArgs(_)
EncodeArgs(args) ==
    IF args = <<>> THEN <<>>
    ELSE (IF args[1][1] THEN <<CB_BYREF>> ELSE <<>>) \o Encode(args[1][2])
         \o EncodeArgs(Tail(args))

EncodeFunc(f) ==
    <<Len(f.args)>> \o (IF f.variadic THEN <<CB_VARIADIC>> ELSE <<>>)
    \o (IF f.ret = <<>> THEN <<CB_VOID>> ELSE Encode(f.ret[1]))
    \o EncodeArgs(f.args)

RECURSIVE RenderArgs(_)
RenderArgs(args) ==
    IF args = <<>> THEN ""
    ELSE Render(args[1][2]) \o (IF args[1][1] THEN "&" ELSE "")
         \o (IF Len(args) > 1 THEN ", " ELSE "") \o RenderArgs(Tail(args))

RenderFunc(f) ==
    "function " \o (IF f.ret = <<>> THEN "void" ELSE Render(f.ret[1]))
    \o " (" \o RenderArgs(f.args) \o (IF f.variadic THEN "..." ELSE "") \o ")"

FuncPairs == {<<EncodeFunc(f), RenderFunc(f)>> : f \in FuncTerms}
FuncSigs  == {p[1] : p \in FuncPairs}
\* a function signature is stored in the blob as a FUNCTION type
FuncBlobs == {<<CB_FUNCTION>> \o b : b \in FuncSigs}

\* Typesets: a variable-length count, then that many types.
TypesetTypes == {Prim(CB_INT32), Prim(CB_BOOL), Arr(Prim(CB_CHAR8))}
TypesetTerms == SeqsUpTo(TypesetTypes, MaxTypes)

RECURSIVE EncodeAll(_)
EncodeAll(ts) == IF ts = <<>> THEN <<>> ELSE Encode(ts[1]) \o EncodeAll(Tail(ts))

RenderAll(ts) == [i \in 1..Len(ts) |-> Render(ts[i])]

TypesetPairs == {<<EncodeU32(Len(ts)) \o EncodeAll(ts), RenderAll(ts)>> :
                    ts \in TypesetTerms}
TypesetBlobs == {p[1] : p \in TypesetPairs}

\* Variable-length integers: every byte string over these bytes.
VarintBytes == {1, 2, 5, 127, 128, 129}
VarintBlobs == SeqsUpTo(VarintBytes, MaxVarint) \ {<<>>}

\* Streams that end before the type is complete.
Truncated == UNION {{SubSeq(b, 1, n) : n \in 1..(Len(b) - 1)} : b \in TypeBlobs}

\* the signature blobs of the type specification
TypeStreams == TypeBlobs \cup TypesetBlobs \cup Truncated

\* Types with CONST at any level of an array nesting: int wrapped up to
\* MaxDepth + 1 times in an array or a CONST (never CONST twice in a row)
RECURSIVE ConstTerms(_)
ConstTerms(d) ==
    IF d = 0 THEN {Prim(CB_INT32)}
    ELSE LET inner == ConstTerms(d - 1)
         IN  inner \cup {Arr(t) : t \in inner}
                   \cup {Const(t) : t \in {u \in inner : u.k # "const"}}
ConstTypeTerms == ConstTerms(MaxDepth + 1)
ConstArgTypes  == {Prim(CB_INT32), Const(Prim(CB_INT32)),
                   Arr(Const(Prim(CB_INT32)))}
ConstFuncTerms ==
    [variadic : {FALSE}, ret : {<<>>, <<Const(Prim(CB_INT32))>>},
     args : SeqsUpTo({FALSE} \X ConstArgTypes, MaxArgc)]
ConstTypeBlobs == {Encode(t) : t \in ConstTypeTerms}
ConstFuncSigs  == {EncodeFunc(f) : f \in ConstFuncTerms}
ConstFuncBlobs == {<<CB_FUNCTION>> \o b : b \in ConstFuncSigs}
                     \cup {<<CB_CONST, CB_FUNCTION>> \o b : b \in ConstFuncSigs}
\* the signature blobs of the const specification
ConstStreams   == ConstTypeBlobs \cup ConstFuncBlobs

\* the blobs type ids are resolved against
SmallBlobs == {Encode(t) : t \in Arrays({Prim(CB_INT32)}, MaxDepth)}

\* Type ids: inline ids packing the encoding of a small type, ids of every
\* other kind, and ids with the sign bit set.
Pack(b) ==
    (IF Len(b) > 0 THEN b[1] ELSE 0) + (IF Len(b) > 1 THEN b[2] * 256 ELSE 0)
    + (IF Len(b) > 2 THEN b[3] * 65536 ELSE 0)
    + (IF Len(b) > 3 THEN b[4] * 16777216 ELSE 0)

InlineTerms ==
    PrimTerms \cup {Const(Prim(CB_INT32)), Arr(Prim(CB_INT32)),
                    Fixed(4, Prim(CB_INT32)), Arr(Arr(Arr(Prim(CB_INT32)))),
                    Ref(CB_ENUM, 1), Ref(CB_STRUCT, 2)}
InlineIds == {16 * Pack(Encode(t)) : t \in InlineTerms}
OtherKindIds == {k : k \in 2..15} \cup {16 * 6 + 2, -9}
SignedIds == {-1, -16, -2147483552}
ComplexIds(bs) == {16 * o + 1 : o \in 0..Len(bs)}
TypeIds(bs) == InlineIds \cup OtherKindIds \cup SignedIds \cup ComplexIds(bs) \cup {-15}

(***************************************************************************)
(* The tables the model starts from.                                       *)
(***************************************************************************)
GlobalAddrs   == {0, 4, 8, 16}
GlobalQueries == {-1, 0, 7, 8, 12, 16, 20}

\* what a row of .dbg.globals can decode to: globals carry no code range
GlobalRows ==
    {[name |-> "g", address |-> a, code_start |-> 0, code_end |-> 0] :
        a \in GlobalAddrs}

LocalAddrs   == {4, 8}
LocalRanges  == {<<0, 20>>, <<12, 20>>}
CodeAddrs    == {5, 10, 15}
LocalQueries == {4, 6, 8}

\* what a row of .dbg.locals can decode to
LocalRows ==
    {[name |-> "v", address |-> a, code_start |-> r[1], code_end |-> r[2]] :
        a \in LocalAddrs, r \in LocalRanges}

\* contents of the working copy address_sorted (a Vec<DebugVarEntry>) that
\* the scan of find_global is run on: rows in any order, the empty copy the
\* constructor leaves included
WorkingCopies ==
    SeqsUpTo({r \in GlobalRows : r.address \in {0, 8, 16}}, MaxSyms)

(***************************************************************************)
(* BaseSection and SMXNameTable (src/sections/mod.rs).  A section is a     *)
(* window {data_offset, size} of the container buffer header.data; both    *)
(* fields are i32.  A String is modelled as its sequence of code points.   *)
(***************************************************************************)
NoNames == [i \in {} |-> <<>>]      \* HashMap::new()

\* data[pos as usize] is a checked index: it panics outside the buffer; a
\* negative i32 cast to usize is far beyond any buffer.
InBuffer(data, pos) == pos >= 0 /\ pos < Len(data)

\* BaseSection::get_data: header.data[data_offset as usize ..
\* (data_offset + size) as usize].to_vec(); the slice panics when its end is
\* beyond the buffer or before its start.
GetData(data, sec) ==
    IF sec.data_offset < 0 \/ sec.size < 0
          \/ sec.data_offset + sec.size > Len(data)
    THEN [panicked |-> TRUE, data |-> <<>>]
    ELSE [panicked |-> FALSE,
          data |-> SubSeq(data, sec.data_offset + 1,
                          sec.data_offset + sec.size)]

\* String::from_utf8_lossy on the bytes the model uses: an ASCII byte is its
\* own code point, a byte that can start no UTF-8 sequence becomes U+FFFD.
ReplacementChar == 65533
Utf8Lossy(str_vec) ==
    [k \in 1..Len(str_vec) |->
        IF str_vec[k] < 128 THEN str_vec[k] ELSE ReplacementChar]

\* the loop of string_at: for i in index..size, stop at the first NUL.
\* reads = the buffer positions the loop has indexed.
RECURSIVE StringAtScan(_, _, _, _, _)
StringAtScan(data, sec, i, str_vec, reads) ==
    IF i >= sec.size
    THEN [panicked |-> FALSE, str_vec |-> str_vec, reads |-> reads]
    ELSE IF ~InBuffer(data, sec.data_offset + i)
    THEN [panicked |-> TRUE, str_vec |-> str_vec, reads |-> reads]
    ELSE IF data[sec.data_offset + i + 1] = 0
    THEN [panicked |-> FALSE, str_vec |-> str_vec,
          reads |-> reads \cup {sec.data_offset + i}]
    ELSE StringAtScan(data, sec, i + 1,
                      Append(str_vec, data[sec.data_offset + i + 1]),
                      reads \cup {sec.data_offset + i})

\* SMXNameTable::string_at(index): the value it returns
StringAt(data, sec, cache, index) ==
    IF index \in DOMAIN cache
    THEN [panicked |-> FALSE, ok |-> TRUE, err |-> "", text |-> cache[index],
          from_cache |-> TRUE, reads |-> {}]
    ELSE IF index >= sec.size
    THEN [panicked |-> FALSE, ok |-> FALSE, err |-> "InvalidIndex",
          text |-> <<>>, from_cache |-> FALSE, reads |-> {}]
    ELSE The({[panicked |-> r.panicked, ok |-> ~r.panicked, err |-> "",
               text |-> IF r.panicked THEN <<>> ELSE Utf8Lossy(r.str_vec),
               from_cache |-> FALSE, reads |-> r.reads]
              : r \in {StringAtScan(data, sec, index, <<>>, {})}})

\* SMXNameTable::string_at(index): the cache it leaves.  The function only
\* looks the cache up; no statement of it inserts.
StringAtCache(cache, index, ret) == cache

\* SMXNameTable::compute_extends: one scan of the section, pushing the start
\* of the current string at every NUL.
RECURSIVE ComputeExtends(_, _, _, _, _)
ComputeExtends(data, sec, i, last_index, ext) ==
    IF i >= sec.size THEN [panicked |-> FALSE, extends |-> ext]
    ELSE IF ~InBuffer(data, sec.data_offset + i)
    THEN [panicked |-> TRUE, extends |-> ext]
    ELSE IF data[sec.data_offset + i + 1] = 0
    THEN ComputeExtends(data, sec, i + 1, i + 1, Append(ext, last_index))
    ELSE ComputeExtends(data, sec, i + 1, last_index, ext)

\* SMXNameTable::get_extends: scan iff the list is empty, return a copy
GetExtends(data, sec, ext) ==
    IF ext = <<>>
    THEN The({[panicked |-> r.panicked, extends |-> r.extends, scanned |-> TRUE]
              : r \in {ComputeExtends(data, sec, 0, 0, ext)}})
    ELSE [panicked |-> FALSE, extends |-> ext, scanned |-> FALSE]

\* Section contents and container layouts of the model
NameBytes == {0, 97, 255}            \* NUL, 'a', a byte that is not UTF-8
FooBar    == <<102, 111, 111, 0, 98, 97, 114, 0>>      \* b"foo\0bar\0"
NameContents ==
    UNION {[1..n -> NameBytes] : n \in 0..MaxName} \cup {FooBar}
Paddings == {<<>>, <<120, 121>>}     \* bytes of the buffer before the section
Trailers == {<<>>, <<122>>}          \* bytes of the buffer after the section
NameIndexes == -1..(MaxName + 1)     \* arguments of string_at
\* any descriptor, inside the buffer or not
Buffers == UNION {[1..n -> {0, 97}] : n \in 0..MaxName}
SectionEntries == [data_offset : -1..MaxName, size : -1..(MaxName + 1)]

(***************************************************************************)
(* The flat record tables of src/sections/mod.rs: .tags with its lookup    *)
(* cache, the called-functions table, and .natives as the representative   *)
(* of the tables that only have getters (.natives, .publics, .pubvars).    *)
(***************************************************************************)
TagFlags_FIXED     == 1073741824       \* 0x4000_0000
TagFlags_FUNCTION  == 536870912        \* 0x2000_0000
TagFlags_OBJECT    == 268435456        \* 0x1000_0000
TagFlags_ENUM      == 134217728        \* 0x0800_0000
TagFlags_METHODMAP == 67108864         \* 0x0400_0000
TagFlags_STRUCT    == 33554432         \* 0x0200_0000

\* TagEntry::FLAGMASK: the flag bits of a tag value, all six TagFlags
FLAGMASK ==
    TagFlags_FIXED + TagFlags_FUNCTION + TagFlags_OBJECT + TagFlags_ENUM
        + TagFlags_METHODMAP + TagFlags_STRUCT

\* a & b on u32 values, bit by bit
RECURSIVE BitAnd(_, _)
BitAnd(a, b) ==
    IF a = 0 \/ b = 0 THEN 0
    ELSE (IF a % 2 = 1 /\ b % 2 = 1 THEN 1 ELSE 0)
             + 2 * BitAnd(a \div 2, b \div 2)

\* Tag::id: entry.tag & !FLAGMASK (tag values below 2^31)
TagId(row) == row.tag - BitAnd(row.tag, FLAGMASK)

\* tags[i].id() as u16
TagIdU16(row) == TagId(row) % 65536

\* Variant of the scan that goes from the last row down.
RECURSIVE FindTagScanLast(_, _, _)
FindTagScanLast(rows, tag, i) ==
    IF i >= Len(rows) THEN OptNone
    ELSE IF TagIdU16(rows[Len(rows) - i]) = tag
    THEN OptSome(rows[Len(rows) - i])
    ELSE FindTagScanLast(rows, tag, i + 1)

\* the scan of find_tag from row i on: the first row whose id is tag
RECURSIVE FindTagScan(_, _, _)
FindTagScan(rows, tag, i) ==
    IF i >= Len(rows) THEN OptNone
    ELSE IF TagIdU16(rows[i + 1]) = tag THEN OptSome(rows[i + 1])
    ELSE FindTagScan(rows, tag, i + 1)

\* SMXTagTable::find_tag(tag): answer from the cache, else scan and cache a
\* found tag; the rows are only read.
FindTag(rows, cache, tag) ==
    IF tag \in DOMAIN cache
    THEN [found |-> OptSome(cache[tag]), cache |-> cache, rows |-> rows]
    ELSE The({[found |-> f,
               cache |-> IF f.some
                         THEN [k \in DOMAIN cache \cup {tag} |->
                                  IF k = tag THEN f.v ELSE cache[k]]
                         ELSE cache,
               rows |-> rows]
              : f \in {FindTagScan(rows, tag, 0)}})

\* format!("{:x}", n): lower-case hexadecimal without padding
HexDigits == <<"0", "1", "2", "3", "4", "5", "6", "7",
               "8", "9", "a", "b", "c", "d", "e", "f">>
RECURSIVE LowerHex(_)
LowerHex(n) ==
    IF n < 16 THEN HexDigits[n + 1]
    ELSE LowerHex(n \div 16) \o HexDigits[(n % 16) + 1]

\* a variant that puts the new row in front of the others (not the code's)
AddFunctionInFront(fns, addr) ==
    <<[address |-> addr, name |-> "sub_" \o LowerHex(addr)]>> \o fns

\* SMXCalledFunctionsTable::add_function(addr): push {addr, "sub_<hex>"}
AddFunction(fns, addr) ==
    Append(fns, [address |-> addr, name |-> "sub_" \o LowerHex(addr)])

\* get_entry(index) of a getter-only table: rows[index].clone(), which
\* panics on an index past the end
GetEntry(rows, index) ==
    IF index >= Len(rows) THEN [panicked |-> TRUE, row |-> <<>>]
    ELSE [panicked |-> FALSE, row |-> rows[index + 1]]

\* Tables and queries of the model
TagValues   == {1, 2, 65537, TagFlags_STRUCT + 2}
TagNames    == <<"Float", "String", "Handle", "Function">>
TagTables   ==
    {[i \in 1..Len(ts) |-> [tag |-> ts[i], name |-> TagNames[i]]]
        : ts \in SeqsUpTo(TagValues, MaxTags)}
TagQueries  == {1, 2, 3}
CalledAddrs == {10, 300}
NativeTables ==
    {[i \in 1..n |-> [name |-> TagNames[i]]] : n \in 0..MaxTags}
EntryIndexes == 0..MaxTags

(***************************************************************************)
(* The rtti.* row tables (src/rtti/mod.rs): a 12-byte header {header_size, *)
(* row_size, row_count} and the rows; SMXRTTIEnumTable::new reads them     *)
(* through byteorder cursors.                                              *)
(***************************************************************************)
\* Cursor::read_i32::<LittleEndian> at pos: UnexpectedEof when fewer than
\* four bytes are left
ReadI32LE(data, pos) ==
    IF pos + 4 > Len(data) THEN [eof |-> TRUE, v |-> 0]
    ELSE [eof |-> FALSE,
          v |-> data[pos + 1] + 256 * data[pos + 2] + 65536 * data[pos + 3]
                + 16777216 * (IF data[pos + 4] >= 128
                              THEN data[pos + 4] - 256 ELSE data[pos + 4])]

\* SMXRTTIListTable::init: three u32 from a cursor of its own over the data
\* (values below 2^31 in the model)
ListTableInit(data) ==
    IF Len(data) < 12 THEN [eof |-> TRUE, header_size |-> 0, row_size |-> 0,
                            row_count |-> 0]
    ELSE [eof |-> FALSE,
          header_size |-> ReadI32LE(data, 0).v,
          row_size    |-> ReadI32LE(data, 4).v,
          row_count   |-> ReadI32LE(data, 8).v]

NoTable == [panicked |-> FALSE, ok |-> FALSE, err |-> "", enums |-> <<>>]

\* the row loop advances by the i32 read plus seek(SeekFrom::Current(3 * 4))
EnumRowStride == 4 + 3 * 4

\* the row loop of SMXRTTIEnumTable::new with n rows to go and the cursor at
\* pos: read the name index, look the name up, skip reserved0-2
RECURSIVE EnumTableRows(_, _, _, _, _, _)
EnumTableRows(data, pos, n, enums, name_data, name_sec) ==
    IF n <= 0
    THEN [panicked |-> FALSE, ok |-> TRUE, err |-> "", enums |-> enums]
    ELSE IF ReadI32LE(data, pos).eof
    THEN [NoTable EXCEPT !.err = "Io"]
    ELSE The({IF s.panicked THEN [NoTable EXCEPT !.panicked = TRUE]
              ELSE IF ~s.ok THEN [NoTable EXCEPT !.err = s.err]
              ELSE EnumTableRows(data, pos + EnumRowStride, n - 1,
                                 Append(enums, s.text), name_data, name_sec)
              : s \in {StringAt(name_data, name_sec, NoNames,
                                ReadI32LE(data, pos).v)}})

\* SMXRTTIEnumTable::new: init reads the header, then a new
\* Cursor::new(data), positioned at byte 0, feeds the row loop
EnumTableNew(data, name_data, name_sec) ==
    IF ListTableInit(data).eof THEN [NoTable EXCEPT !.err = "Io"]
    ELSE EnumTableRows(data, 0, ListTableInit(data).row_count, <<>>,
                       name_data, name_sec)

\* Sections of the model: little-endian fields, header {12, 16, n}, rows
\* {name, reserved0-2}; the .names section holds four names
I32LE(v) == <<v % 256, (v \div 256) % 256, (v \div 65536) % 256,
              (v \div 16777216) % 256>>
EnumNames == <<65, 99, 116, 0, 82, 101, 115, 0,
               80, 108, 117, 0, 68, 109, 103, 0>>   \* "Act", "Res", "Plu", "Dmg"
EnumNameOffsets == {0, 4, 8, 12}
RECURSIVE EnumRows(_)
EnumRows(idxs) ==
    IF idxs = <<>> THEN <<>>
    ELSE I32LE(Head(idxs)) \o I32LE(0) \o I32LE(0) \o I32LE(0)
            \o EnumRows(Tail(idxs))
RowSections ==
    {I32LE(12) \o I32LE(16) \o I32LE(Len(idxs)) \o EnumRows(idxs)
        : idxs \in SeqsUpTo(EnumNameOffsets, MaxEnums)}

\* the row loop of SMXRTTIMethodTable::new with n rows to go and the cursor
\* at pos: read the name index, look the name up, read pcode_start,
\* pcode_end and signature
RECURSIVE MethodTableRows(_, _, _, _, _, _)
MethodTableRows(data, pos, n, methods, name_data, name_sec) ==
    IF n <= 0
    THEN [panicked |-> FALSE, ok |-> TRUE, err |-> "", methods |-> methods]
    ELSE IF ReadI32LE(data, pos).eof
    THEN [panicked |-> FALSE, ok |-> FALSE, err |-> "Io", methods |-> <<>>]
    ELSE The({IF s.panicked
              THEN [panicked |-> TRUE, ok |-> FALSE, err |-> "",
                    methods |-> <<>>]
              ELSE IF ~s.ok
              THEN [panicked |-> FALSE, ok |-> FALSE, err |-> s.err,
                    methods |-> <<>>]
              ELSE IF ReadI32LE(data, pos + 12).eof
              THEN [panicked |-> FALSE, ok |-> FALSE, err |-> "Io",
                    methods |-> <<>>]
              ELSE MethodTableRows(data, pos + 16, n - 1,
                       Append(methods,
                              [name        |-> s.text,
                               pcode_start |-> ReadI32LE(data, pos + 4).v,
                               pcode_end   |-> ReadI32LE(data, pos + 8).v,
                               signature   |-> ReadI32LE(data, pos + 12).v]),
                       name_data, name_sec)
              : s \in {StringAt(name_data, name_sec, NoNames,
                                ReadI32LE(data, pos).v)}})

\* SMXRTTIMethodTable::new: init reads the header, then a new
\* Cursor::new(data), positioned at byte 0, feeds the row loop
MethodTableNew(data, name_data, name_sec) ==
    IF ListTableInit(data).eof
    THEN [panicked |-> FALSE, ok |-> FALSE, err |-> "Io", methods |-> <<>>]
    ELSE MethodTableRows(data, 0, ListTableInit(data).row_count, <<>>,
                         name_data, name_sec)

\* the rows {name, pcode_start, pcode_end, signature} stored in the
\* rtti.methods section of the model
StoredMethodRows ==
    <<[name |-> 0, pcode_start |-> 0,  pcode_end |-> 10, signature |-> 20],
      [name |-> 4, pcode_start |-> 10, pcode_end |-> 20, signature |-> 30],
      [name |-> 8, pcode_start |-> 20, pcode_end |-> 30, signature |-> 40]>>
RECURSIVE MethodRowBytes(_)
MethodRowBytes(rows) ==
    IF rows = <<>> THEN <<>>
    ELSE I32LE(Head(rows).name) \o I32LE(Head(rows).pcode_start)
            \o I32LE(Head(rows).pcode_end) \o I32LE(Head(rows).signature)
            \o MethodRowBytes(Tail(rows))

\* rtti.methods sections: header {12, 16, n} and the first n stored rows
MethodSections ==
    {I32LE(12) \o I32LE(16) \o I32LE(n)
         \o MethodRowBytes(SubSeq(StoredMethodRows, 1, n))
        : n \in 0..Len(StoredMethodRows)}

\* the RTTI method tables SMXRTTIMethodTable::new builds from them
RttiMethodTables ==
    {MethodTableNew(sec, EnumNames,
                    [data_offset |-> 0, size |-> Len(EnumNames)]).methods
        : sec \in MethodSections}

\* what a row {method_index, first_local} of .dbg.methods can decode to
DebugMethodRows == [method_index : {1, 2}, first_local : {0, 1, 2}]

\* which of the two method tables the file has
MethodTables ==
    {<<OptSome(DebugMethodsNew(d, n)), OptSome(rm)>> :
        d \in DebugMethodRows, n \in 0..MaxMethods, rm \in RttiMethodTables}
    \cup {<<OptNone, OptSome(rm)>> : rm \in RttiMethodTables}
    \cup {<<OptNone, OptNone>>,
          <<OptSome(DebugMethodsNew([method_index |-> 1, first_local |-> 1], 1)),
            OptNone>>}

(***************************************************************************)
(* Initial states, one per subsystem; a subsystem that a specification     *)
(* does not exercise is left idle.                                         *)
(***************************************************************************)
IdleFiles   == files_entries = <<>> /\ lines_entries = <<>> /\ lookup = NoCall
IdleGlobals == globals = DebugSymbolsNew(NoSym, 0) /\ global_call = NoCall
IdleLocals  == /\ locals = DebugSymbolsNew(NoSym, 0)
               /\ debug_methods = OptNone /\ rtti_methods = OptNone
               /\ local_call = NoCall
IdleTypes   == bytes = <<>> /\ overflow_checks = FALSE /\ type_call = NoCall
IdleNames  == /\ container = <<>> /\ section = [data_offset |-> 0, size |-> 0]
              /\ names = NoNames /\ extends = <<>> /\ name_call = NoCall
IdleTables == /\ tags = <<>> /\ tag_cache = NoNames /\ functions = <<>>
              /\ natives = <<>> /\ table_call = NoCall
IdleRows   == row_section = <<>> /\ enum_table = NoCall
IdleMore   == IdleNames /\ IdleTables /\ IdleRows
IdleDebug  == IdleFiles /\ IdleGlobals /\ IdleLocals /\ IdleTypes

InitFiles ==
    /\ files_entries \in FilesTables
    /\ lines_entries \in LinesTables
    /\ lookup = NoCall
    /\ IdleGlobals /\ IdleLocals /\ IdleTypes /\ IdleMore

InitGlobals ==
    /\ globals \in {DebugSymbolsNew(row, n) : row \in GlobalRows, n \in 0..MaxSyms}
    /\ global_call = NoCall
    /\ IdleFiles /\ IdleLocals /\ IdleTypes /\ IdleMore

InitLocals ==
    /\ locals \in {DebugSymbolsNew(row, n) : row \in LocalRows, n \in 0..MaxSyms}
    /\ \E m \in MethodTables : debug_methods = m[1] /\ rtti_methods = m[2]
    /\ local_call = NoCall
    /\ IdleFiles /\ IdleGlobals /\ IdleTypes /\ IdleMore

InitTypeIds ==
    /\ bytes \in SmallBlobs
    /\ overflow_checks \in BOOLEAN
    /\ type_call = NoCall
    /\ IdleFiles /\ IdleGlobals /\ IdleLocals /\ IdleMore

InitTypes ==
    /\ bytes \in TypeStreams
    /\ overflow_checks \in BOOLEAN
    /\ type_call = NoCall
    /\ IdleFiles /\ IdleGlobals /\ IdleLocals /\ IdleMore

InitFuncs ==
    /\ bytes \in FuncBlobs
    /\ overflow_checks \in BOOLEAN
    /\ type_call = NoCall
    /\ IdleFiles /\ IdleGlobals /\ IdleLocals /\ IdleMore

InitVarint ==
    /\ bytes \in VarintBlobs
    /\ overflow_checks \in BOOLEAN
    /\ type_call = NoCall
    /\ IdleFiles /\ IdleGlobals /\ IdleLocals /\ IdleMore

\* SMXNameTable::new on a section that lies inside the container buffer
InitNames ==
    /\ \E pad \in Paddings, content \in NameContents, trailer \in Trailers :
          /\ container = pad \o content \o trailer
          /\ section = [data_offset |-> Len(pad), size |-> Len(content)]
    /\ names = NoNames /\ extends = <<>> /\ name_call = NoCall
    /\ IdleDebug /\ IdleTables /\ IdleRows

\* BaseSection::new on any section descriptor
InitSection ==
    /\ container \in Buffers
    /\ section \in SectionEntries
    /\ names = NoNames /\ extends = <<>> /\ name_call = NoCall
    /\ IdleDebug /\ IdleTables /\ IdleRows

\* SMXTagTable::new, SMXNativeTable::new and SMXCalledFunctionsTable::new of
\* a file that has rows in its .tags table only, in its .natives table
\* only, or in its .dbg.globals table only
InitTables ==
    /\ \/ tags \in TagTables /\ natives = <<>> /\ IdleGlobals
       \/ tags = <<>> /\ natives \in NativeTables /\ IdleGlobals
       \/ /\ tags = <<>> /\ natives = <<>> /\ global_call = NoCall
          /\ globals \in {DebugSymbolsNew(row, n) :
                             row \in GlobalRows, n \in 0..MaxSyms}
    /\ tag_cache = NoNames /\ functions = <<>> /\ table_call = NoCall
    /\ IdleFiles /\ IdleLocals /\ IdleTypes /\ IdleNames /\ IdleRows

\* an rtti.enums section and the .names table, before SMXRTTIEnumTable::new
InitRows ==
    /\ row_section \in RowSections
    /\ enum_table = NoCall
    /\ container = EnumNames
    /\ section = [data_offset |-> 0, size |-> Len(EnumNames)]
    /\ names = NoNames /\ extends = <<>> /\ name_call = NoCall
    /\ IdleDebug /\ IdleTables

InitConst ==
    /\ bytes \in ConstStreams
    /\ overflow_checks \in BOOLEAN
    /\ type_call = NoCall
    /\ IdleFiles /\ IdleGlobals /\ IdleLocals /\ IdleMore

(***************************************************************************)
(* Actions: one per public method, with its arguments drawn from the       *)
(* query sets.                                                             *)
(***************************************************************************)
\* SMXDebugFilesTable::find_file(addr)
FindFileCall ==
    \E addr \in QueryAddrs :
        /\ lookup' = [op |-> "files", addr |-> addr,
                      ret |-> FilesFindFile(files_entries, addr)]
        /\ UNCHANGED <<files_entries, lines_entries,
                       globalsVars, localsVars, typesVars, moreVars>>

\* SMXDebugLinesTable::find_file(addr)
FindLineCall ==
    \E addr \in QueryAddrs :
        /\ lookup' = [op |-> "lines", addr |-> addr,
                      ret |-> LinesFindFile(lines_entries, addr)]
        /\ UNCHANGED <<files_entries, lines_entries,
                       globalsVars, localsVars, typesVars, moreVars>>

\* SMXDebugSymbols::ensure_sorted_addresses()
EnsureSortedCall ==
    /\ globals' = EnsureSortedAddresses(globals)
    /\ global_call' = [op |-> "ensure_sorted_addresses", addr |-> 0, ret |-> None]
    /\ UNCHANGED <<filesVars, localsVars, typesVars, moreVars>>

\* SMXDebugGlobals::find_global(addr): sort on demand, then scan
FindGlobalCall ==
    \E addr \in GlobalQueries :
        /\ globals' = EnsureSortedAddresses(globals)
        /\ global_call' = [op |-> "find_global", addr |-> addr,
                           ret |-> FindGlobal(globals', addr)]
        /\ UNCHANGED <<filesVars, localsVars, typesVars, moreVars>>

\* The scan loop of find_global on its own, as a function of the working
\* copy it iterates and of addr.
FindGlobalScanCall ==
    \E sorted \in WorkingCopies, addr \in GlobalQueries :
        /\ global_call' = [op |-> "scan", sorted |-> sorted, addr |-> addr,
                           ret |-> FindGlobalScan(sorted, addr, 0)]
        /\ UNCHANGED <<globals, filesVars, localsVars, typesVars, moreVars>>

\* SMXDebugLocals::find_local(code_addr, addr)
FindLocalCall ==
    \E code_addr \in CodeAddrs, addr \in LocalQueries :
        /\ local_call' = [op |-> "find_local", code_addr |-> code_addr,
                          addr |-> addr,
                          ret |-> FindLocal(locals.entries, debug_methods,
                                            rtti_methods, code_addr, addr)]
        /\ UNCHANGED <<locals, debug_methods, rtti_methods,
                       filesVars, globalsVars, typesVars, moreVars>>

\* SMXRTTIData::type_from_id(type_id)
TypeFromIdOf(type_id) ==
    /\ type_call' = [op |-> "type_from_id", arg |-> type_id,
                     ret |-> TypeFromId(bytes, type_id)]
    /\ UNCHANGED <<bytes, overflow_checks, filesVars, globalsVars, localsVars,
                       moreVars>>

\* type_from_id on a type id of any kind
TypeFromIdCall == \E type_id \in TypeIds(bytes) : TypeFromIdOf(type_id)

\* type_from_id on a COMPLEX type id: the type stored at an offset of the blob
TypeAtOffsetCall == \E type_id \in ComplexIds(bytes) : TypeFromIdOf(type_id)

\* SMXRTTIData::function_type_from_offset(offset)
FunctionTypeFromOffsetCall ==
    \E offset \in 0..Len(bytes) :
        /\ type_call' = [op |-> "function_type_from_offset", arg |-> offset,
                         ret |-> FunctionTypeFromOffset(bytes, offset)]
        /\ UNCHANGED <<bytes, overflow_checks, filesVars, globalsVars, localsVars,
                       moreVars>>

\* SMXRTTIData::typeset_types_from_offset(offset)
TypesetTypesFromOffsetCall ==
    \E offset \in 0..Len(bytes) :
        /\ type_call' = [op |-> "typeset_types_from_offset", arg |-> offset,
                         ret |-> TypesetTypesFromOffset(bytes, offset)]
        /\ UNCHANGED <<bytes, overflow_checks, filesVars, globalsVars, localsVars,
                       moreVars>>

\* CB::decode_u32(bytes, &mut offset)
DecodeU32Call ==
    \E offset \in 0..Len(bytes) :
        /\ type_call' = [op |-> "decode_u32", arg |-> offset,
                         ret |-> DecodeU32(bytes, offset)]
        /\ UNCHANGED <<bytes, overflow_checks, filesVars, globalsVars, localsVars,
                       moreVars>>

\* BaseSection::get_data()
GetDataCall ==
    /\ name_call' = [op |-> "get_data", ret |-> GetData(container, section)]
    /\ UNCHANGED <<container, section, names, extends,
                   filesVars, globalsVars, localsVars, typesVars,
                   tablesVars, rowsVars>>

\* SMXNameTable::string_at(index)
StringAtCall ==
    \E index \in NameIndexes :
        /\ name_call' = [op |-> "string_at", index |-> index,
                         ret |-> StringAt(container, section, names, index)]
        /\ names' = StringAtCache(names, index, name_call'.ret)
        /\ UNCHANGED <<container, section, extends,
                       filesVars, globalsVars, localsVars, typesVars,
                       tablesVars, rowsVars>>

\* SMXNameTable::get_extends()
GetExtendsCall ==
    /\ name_call' = [op |-> "get_extends",
                     ret |-> GetExtends(container, section, extends)]
    /\ extends' = name_call'.ret.extends
    /\ UNCHANGED <<container, section, names,
                   filesVars, globalsVars, localsVars, typesVars,
                   tablesVars, rowsVars>>

\* SMXTagTable::find_tag(tag)
FindTagCall ==
    \E tag \in TagQueries :
        /\ table_call' = [op |-> "find_tag", arg |-> tag,
                          ret |-> FindTag(tags, tag_cache, tag).found]
        /\ tag_cache' = FindTag(tags, tag_cache, tag).cache
        /\ tags' = FindTag(tags, tag_cache, tag).rows
        /\ UNCHANGED <<functions, natives, filesVars, globalsVars,
                       localsVars, typesVars, namesVars, rowsVars>>

\* SMXCalledFunctionsTable::add_function(addr)
AddFunctionCall ==
    \E addr \in CalledAddrs :
        /\ Len(functions) < MaxCalls
        /\ functions' = AddFunction(functions, addr)
        /\ table_call' = [op |-> "add_function", arg |-> addr, ret |-> OptNone]
        /\ UNCHANGED <<tags, tag_cache, natives, filesVars, globalsVars,
                       localsVars, typesVars, namesVars, rowsVars>>

\* SMXNativeTable::get_entry(index)
GetEntryCall ==
    \E index \in EntryIndexes :
        /\ table_call' = [op |-> "get_entry", arg |-> index,
                          ret |-> GetEntry(natives, index)]
        /\ UNCHANGED <<tags, tag_cache, functions, natives, filesVars,
                       globalsVars, localsVars, typesVars, namesVars,
                       rowsVars>>

\* SMXRTTIEnumTable::new(header, section, names)
EnumTableNewCall ==
    /\ enum_table' = [op |-> "new",
                      ret |-> EnumTableNew(row_section, container, section)]
    /\ UNCHANGED <<row_section, namesVars, filesVars, globalsVars,
                   localsVars, typesVars, tablesVars>>

NextFiles   == FindFileCall \/ FindLineCall
NextGlobals == EnsureSortedCall \/ FindGlobalCall
NextLocals  == FindLocalCall
NextTypeIds == TypeFromIdCall
NextTypes   == TypeAtOffsetCall \/ TypesetTypesFromOffsetCall
NextFuncs   == FunctionTypeFromOffsetCall \/ TypeAtOffsetCall
NextVarint  == DecodeU32Call

SpecFiles   == InitFiles /\ [][NextFiles]_vars
SpecGlobals == InitGlobals /\ [][NextGlobals]_vars
SpecLocals  == InitLocals /\ [][NextLocals]_vars
SpecTypeIds == InitTypeIds /\ [][NextTypeIds]_vars
SpecTypes   == InitTypes /\ [][NextTypes]_vars
SpecFuncs   == InitFuncs /\ [][NextFuncs]_vars
SpecVarint  == InitVarint /\ [][NextVarint]_vars

NextNames   == StringAtCall \/ GetExtendsCall
NextSection == GetDataCall
SpecNames   == InitNames /\ [][NextNames]_vars
SpecSection == InitSection /\ [][NextSection]_vars

NextTables  == FindTagCall \/ AddFunctionCall \/ GetEntryCall
                   \/ EnsureSortedCall \/ FindGlobalCall
SpecTables  == InitTables /\ [][NextTables]_vars

NextRows    == EnumTableNewCall
SpecRows    == InitRows /\ [][NextRows]_vars

NextGlobalScan == FindGlobalCall \/ FindGlobalScanCall
SpecGlobalScan == InitGlobals /\ [][NextGlobalScan]_vars

SpecConst   == InitConst /\ [][NextFuncs]_vars

\* Any one of the objects, exercised on its own.
Init == InitFiles \/ InitGlobals \/ InitLocals \/ InitTypeIds \/ InitTypes
            \/ InitFuncs \/ InitVarint \/ InitNames \/ InitSection
            \/ InitTables \/ InitRows \/ InitConst
Next == NextFiles \/ NextGlobals \/ NextLocals \/ NextTypeIds \/ NextTypes
            \/ NextFuncs \/ NextVarint \/ NextNames \/ NextSection
            \/ NextTables \/ NextRows \/ NextGlobalScan
Spec == Init /\ [][Next]_vars

(***************************************************************************)
(* Properties.  Each is stated on the record of the last call: its         *)
(* arguments, what it returned, and the table or blob it ran on.           *)
(***************************************************************************)
AddressesOf(ents) == [i \in 1..Len(ents) |-> ents[i].address]

\* the rows of ents whose address is <= addr
RowsAtOrBelow(ents, addr) == {i \in 1..Len(ents) : ents[i].address <= addr}

\* C1: on a files table and on a lines table sorted by ascending address,
\* find_file(addr) returns None when no row has an address <= addr (addr
\* below the first row, or an empty table); otherwise it selects a row with
\* the greatest address <= addr and returns that row's name (files) or that
\* row's stored line + 1 (lines).  For addresses [10, 20, 30]: 5 -> None,
\* 10 -> row 0, 15 -> row 0, 30 -> row 2, 999 -> row 2.  No probe of the
\* search falls outside the table.
C1_FindFileGreatestRowAtOrBelow ==
    lookup.op \in {"files", "lines"} =>
        LET ents  == IF lookup.op = "files" THEN files_entries ELSE lines_entries
            addr  == lookup.addr
            r     == lookup.ret
            below == RowsAtOrBelow(ents, addr)
        IN  /\ ~r.panicked
            /\ r.probes \subseteq 0..(Len(ents) - 1)
            /\ (below = {}) <=> ~r.some
            /\ r.some =>
                 /\ r.low + 1 \in below
                 /\ \A i \in below : ents[i].address <= ents[r.low + 1].address
                 /\ lookup.op = "files" => r.name = ents[r.low + 1].name
                 /\ lookup.op = "lines" => r.line = ents[r.low + 1].line + 1
            /\ AddressesOf(ents) = <<10, 20, 30>> =>
                 /\ addr = 5   => ~r.some
                 /\ addr = 10  => r.some /\ r.low = 0
                 /\ addr = 15  => r.some /\ r.low = 0
                 /\ addr = 30  => r.some /\ r.low = 2
                 /\ addr = 999 => r.some /\ r.low = 2

\* A lines lookup between two rows of a three-row table answers with the
\* lower row's line + 1.
C1_Witness ==
    /\ lookup.op = "lines"
    /\ AddressesOf(lines_entries) = <<10, 20, 30>>
    /\ lookup.addr = 15
    /\ lookup.ret.some /\ lookup.ret.low = 0
    /\ lookup.ret.line = lines_entries[1].line + 1

HasDistinctAddresses(ents) ==
    \A i, j \in 1..Len(ents) : i # j => ents[i].address # ents[j].address

\* the row of ents with the greatest address among the rows at or below addr
GreatestAtOrBelow(ents, addr) ==
    ents[CHOOSE i \in RowsAtOrBelow(ents, addr) :
            \A j \in RowsAtOrBelow(ents, addr) : ents[j].address <= ents[i].address]

\* C2: on a globals table with distinct addresses, find_global(addr) returns
\* the entry whose address equals addr, and, when addr lies strictly between
\* the addresses of two address-consecutive entries, the lower of the two;
\* it returns None when addr is below the lowest address.
C2_FindGlobalCoversHalfOpenRange ==
    global_call.op = "find_global" =>
        LET ents  == globals.entries
            addr  == global_call.addr
            r     == global_call.ret
            below == RowsAtOrBelow(ents, addr)
            exact == \E i \in 1..Len(ents) : ents[i].address = addr
            above == \E i \in 1..Len(ents) : ents[i].address > addr
        IN  HasDistinctAddresses(ents) =>
              /\ below = {} => ~r.some
              /\ (below # {} /\ (exact \/ above)) =>
                    r.some /\ r.sym = GreatestAtOrBelow(ents, addr)

\* the rows the last call looked among: the table of a find_global call,
\* the working copy of a scan
SearchedRows ==
    IF global_call.op = "find_global" THEN globals.entries
    ELSE IF global_call.op = "scan" THEN global_call.sorted
    ELSE <<>>

\* addr lies above the address of every row of a non-empty table or
\* working copy
PastLastGlobal ==
    /\ SearchedRows # <<>>
    /\ \A i \in 1..Len(SearchedRows) :
           SearchedRows[i].address < global_call.addr

InPcodeRange(dm, rm, code_addr, i) ==
    /\ dm[i].method_index \in 0..(Len(rm) - 1)
    /\ code_addr > rm[dm[i].method_index + 1].pcode_start
    /\ code_addr < rm[dm[i].method_index + 1].pcode_end

\* C4: with both method tables present and code_addr in the pcode range of
\* debug method i (the first such method in table order), find_local reads
\* and can return only symbols with index in [first_local(i),
\* first_local(i+1)), or in [first_local(i), table end) when i is the last
\* debug method; with a method table missing the window is the whole table.
C4_FindLocalWindow ==
    local_call.op = "find_local" =>
        LET r  == local_call.ret
            ca == local_call.code_addr
            n  == Len(locals.entries)
        IN  /\ (debug_methods.some /\ rtti_methods.some) =>
                \A i \in 1..Len(debug_methods.v) :
                    ( /\ InPcodeRange(debug_methods.v, rtti_methods.v, ca, i)
                      /\ \A j \in 1..(i - 1) :
                            ~InPcodeRange(debug_methods.v, rtti_methods.v, ca, j) )
                    =>
                    LET lo == debug_methods.v[i].first_local
                        hi == IF i = Len(debug_methods.v) THEN n
                              ELSE debug_methods.v[i + 1].first_local
                    IN  /\ r.start_at = lo /\ r.stop_at = hi
                        /\ r.examined \subseteq lo..(hi - 1)
                        /\ r.some => r.index \in lo..(hi - 1)
            /\ ~(debug_methods.some /\ rtti_methods.some) =>
                /\ r.start_at = 0 /\ r.stop_at = n
                /\ r.examined \subseteq 0..(n - 1)
                /\ r.some => r.index \in 0..(n - 1)

\* find_local found a symbol in the window of the enclosing method, which
\* starts past the first symbol of the table.
C4_Witness ==
    /\ local_call.op = "find_local"
    /\ debug_methods.some /\ rtti_methods.some
    /\ Len(debug_methods.v) = 1
    /\ InPcodeRange(debug_methods.v, rtti_methods.v, local_call.code_addr, 1)
    /\ ~local_call.ret.panicked
    /\ local_call.ret.some
    /\ local_call.ret.start_at = 1
    /\ local_call.ret.stop_at = 3
    /\ local_call.ret.index = 1

\* the low 4 bits and the next 28 bits of a 32-bit two's-complement value
LowNibble(x)  == CHOOSE k \in 0..15 : (x - k) % 16 = 0
Payload28(x)  == ((x - LowNibble(x)) \div 16) % 268435456

\* C5: type_from_id(type_id) dispatches on the low 4 bits of type_id.  Kind 0
\* decodes the four little-endian bytes of the 28-bit payload as one type;
\* kind 1 decodes the type at byte offset payload of the blob; every other
\* kind returns "Unknown type_id kind: <kind>" without failing, negative
\* type ids included.
C5_TypeFromIdDispatch ==
    type_call.op = "type_from_id" =>
        LET id      == type_call.arg
            r       == type_call.ret
            kind    == LowNibble(id)
            payload == Payload28(id)
            b0      == payload % 256
            b1      == ((payload - b0) \div 256) % 256
            b2      == ((payload - b0 - 256 * b1) \div 65536) % 256
            b3      == (payload - b0 - 256 * b1 - 65536 * b2) \div 16777216
        IN  /\ kind \notin {0, 1} =>
                /\ r.panic = "none"
                /\ r.text = "Unknown type_id kind: " \o ToString(kind)
            /\ kind = 0 => r = DecodeNew(<<b0, b1, b2, b3>>, 0, FALSE)
            /\ kind = 1 => r = DecodeNew(bytes, payload, FALSE)
            /\ \A t \in InlineTerms \ {Ref(CB_STRUCT, 2)} :
                   id = 16 * Pack(Encode(t)) =>
                       r.panic = "none" /\ r.text = Render(t)
            /\ id = 96 => r.text = "int"
            /\ id = -2147483552 => r.text = "int"
            /\ id = 16 * (CB_CONST + 256 * CB_INT32) => r.text = "const int"
            /\ id = 16 * (CB_ARRAY + 256 * CB_INT32) => r.text = "int[]"
            /\ (id = 1 /\ bytes = <<CB_ARRAY, CB_INT32>>) => r.text = "int[]"
            /\ (id = 17 /\ bytes = <<CB_ARRAY, CB_INT32>>) => r.text = "int"
            /\ id = 7 => r.text = "Unknown type_id kind: 7"
            /\ id = -9 => r.text = "Unknown type_id kind: 7"

\* type_from_id on the inline id of [CONST, INT32] has returned "const int".
C5_Witness ==
    /\ type_call.op = "type_from_id"
    /\ type_call.arg = 16 * (CB_CONST + 256 * CB_INT32)
    /\ type_call.ret.panic = "none"
    /\ type_call.ret.text = "const int"

\* The bytes of the blob from offset o to its end.
Suffix(o) == SubSeq(bytes, o + 1, Len(bytes))

\* C6: decoding one type renders the primitives as their fixed names, ARRAY
\* as "<elem>[]", FIXEDARRAY as "<elem>[<n>]" with n the variable-length
\* count of the stream, a leading CONST as "const ", and leaves the cursor
\* exactly past the last byte of the type.
C6_DecodeOneType ==
    (type_call.op = "type_from_id" /\ LowNibble(type_call.arg) = 1
        /\ Payload28(type_call.arg) <= Len(bytes)
        /\ Suffix(Payload28(type_call.arg)) \in TypeBlobs) =>
        /\ type_call.ret.panic = "none"
        /\ <<Suffix(Payload28(type_call.arg)), type_call.ret.text>> \in TypePairs
        /\ type_call.ret.offset = Len(bytes)

\* C7: function_type_from_offset(offset) reads argc, an optional VARIADIC
\* byte, the return type (VOID rendered "void"), then exactly argc arguments,
\* each with an optional leading BYREF rendered as a trailing "&", and
\* renders "function <return> (<args joined by ", ">)" with "..." directly
\* before ")" when variadic; the cursor ends past the last argument.
C7_FunctionSignature ==
    (type_call.op = "function_type_from_offset"
        /\ Suffix(type_call.arg) \in FuncSigs) =>
        /\ type_call.ret.panic = "none"
        /\ <<Suffix(type_call.arg), type_call.ret.text>> \in FuncPairs
        /\ type_call.ret.offset = Len(bytes)
        /\ Suffix(type_call.arg) = <<2, CB_VOID, CB_INT32, CB_BYREF, CB_FLOAT32>>
               => type_call.ret.text = "function void (int, float&)"
        /\ Suffix(type_call.arg) = <<1, CB_VARIADIC, CB_CHAR8, CB_ANY>>
               => type_call.ret.text = "function char (any...)"

\* The signature argc=2, VOID, INT32, (BYREF, FLOAT32) has been decoded.
C7_Witness ==
    /\ type_call.op = "function_type_from_offset"
    /\ Suffix(type_call.arg) = <<2, CB_VOID, CB_INT32, CB_BYREF, CB_FLOAT32>>
    /\ type_call.ret.panic = "none"
    /\ type_call.ret.text = "function void (int, float&)"

\* C8: typeset_types_from_offset(offset) reads the count n stored at offset
\* and returns exactly n type strings, the first decoded from the byte
\* right after the count and each next one from where the previous ended.
C8_TypesetSharedCursor ==
    (type_call.op = "typeset_types_from_offset"
        /\ Suffix(type_call.arg) \in TypesetBlobs) =>
        /\ type_call.ret.panic = "none"
        /\ <<Suffix(type_call.arg), type_call.ret.types>> \in TypesetPairs

\* index of the first byte at or after o whose high bit is clear, or
\* Len(bs) when there is none
RECURSIVE LastByteOf(_, _)
LastByteOf(bs, o) ==
    IF o >= Len(bs) THEN Len(bs)
    ELSE IF bs[o + 1] < 128 THEN o
    ELSE LastByteOf(bs, o + 1)

\* sum of (b_k & 0x7f) << (7 * k) over the bytes o..last of bs
RECURSIVE Base128(_, _, _)
Base128(bs, o, last) ==
    IF o > last THEN 0
    ELSE (bs[o + 1] % 128) + 128 * Base128(bs, o + 1, last)

\* C9: decode_u32 consumes bytes up to and including the first byte whose
\* high bit is clear, advances the offset by the number of bytes consumed,
\* and returns the sum over the consumed bytes b_k of (b_k & 0x7f) << (7*k).
C9_DecodeU32Value ==
    (type_call.op = "decode_u32"
        /\ LastByteOf(bytes, type_call.arg) < Len(bytes)) =>
        /\ type_call.ret.panic = "none"
        /\ type_call.ret.offset = LastByteOf(bytes, type_call.arg) + 1
        /\ type_call.ret.value =
               Base128(bytes, type_call.arg, LastByteOf(bytes, type_call.arg))

\* C10: for every blob and every start offset inside it, type_from_id,
\* function_type_from_offset and typeset_types_from_offset return rendered
\* strings; the only abort is a named-reference index outside its table.
C10_DecoderNeverAborts ==
    LET inside ==
            \/ /\ type_call.op = "type_from_id"
               /\ LowNibble(type_call.arg) = 1
                     => Payload28(type_call.arg) < Len(bytes)
            \/ /\ type_call.op \in {"function_type_from_offset",
                                    "typeset_types_from_offset"}
               /\ type_call.arg < Len(bytes)
    IN  inside => type_call.ret.panic \in {"none", PanicTable}

(***************************************************************************)
(* Name table and section window.                                          *)
(***************************************************************************)
\* the buffer positions of the section: [data_offset, data_offset + size)
SectionRange == section.data_offset .. (section.data_offset + section.size - 1)

\* the bytes of the section (for a section inside the buffer)
SectionBytes ==
    SubSeq(container, section.data_offset + 1,
           section.data_offset + section.size)

\* the bytes of bs from offset up to, not including, the next NUL or the end
UpToNul(bs, offset) ==
    LET stop == CHOOSE k \in offset..Len(bs) :
                    /\ k = Len(bs) \/ bs[k + 1] = 0
                    /\ \A j \in offset..(k - 1) : bs[j + 1] # 0
    IN  SubSeq(bs, offset + 1, stop)

\* 0, and every offset inside the section right after a NUL
RootOffsets(bs) == {0} \cup {k \in 1..(Len(bs) - 1) : bs[k] = 0}

StrictlyAscending(s) == \A i \in 1..(Len(s) - 1) : s[i] < s[i + 1]

\* C11: string_at(offset) fails with the invalid-index error whenever
\* offset >= section size, succeeds for every other offset with the bytes
\* from offset up to the next NUL or the section end, and never reads a
\* byte outside [data_offset, data_offset + size).
C11_StringAtStaysInsideSection ==
    name_call.op = "string_at" =>
        /\ ~name_call.ret.panicked
        /\ name_call.ret.reads \subseteq SectionRange
        /\ name_call.index >= section.size =>
              ~name_call.ret.ok /\ name_call.ret.err = "InvalidIndex"
        /\ name_call.index < section.size => name_call.ret.ok
        /\ name_call.index \in 0..(section.size - 1) =>
              name_call.ret.text
                  = Utf8Lossy(UpToNul(SectionBytes, name_call.index))

\* C12: after a successful string_at(offset) the result is stored in the
\* per-instance cache under the key offset (so that later calls are answered
\* from the cache), and a cached entry is never changed or removed.
C12_StringAtMemoized ==
    name_call.op = "string_at" /\ name_call.ret.ok =>
        /\ name_call.index \in DOMAIN names
        /\ names[name_call.index] = name_call.ret.text

\* C13: get_extends returns the ascending list of root offsets, 0 plus every
\* offset inside the section that immediately follows a NUL, for every
\* section content, one with no NUL byte included; after the call the list
\* is the cached one.
C13_GetExtendsRootOffsets ==
    name_call.op = "get_extends" /\ section.size > 0 =>
        /\ ~name_call.ret.panicked
        /\ Range(name_call.ret.extends) = RootOffsets(SectionBytes)
        /\ StrictlyAscending(name_call.ret.extends)
        /\ extends = name_call.ret.extends

\* C14: get_data() returns exactly size bytes starting at data_offset when
\* data_offset + size <= buffer length; when the range exceeds the buffer
\* the call does not panic.
C14_GetDataNeverPanics ==
    name_call.op = "get_data" =>
        /\ ~name_call.ret.panicked
        /\ (section.data_offset >= 0 /\ section.size >= 0
              /\ section.data_offset + section.size <= Len(container))
           => /\ Len(name_call.ret.data) = section.size
              /\ \A k \in 1..section.size :
                    name_call.ret.data[k] = container[section.data_offset + k]

(***************************************************************************)
(* Flat record tables.                                                     *)
(***************************************************************************)
\* the rows of the tables that are decoded from the file
DecodedRows ==
    <<files_entries, lines_entries, globals.entries, locals.entries,
      debug_methods, tags, natives>>

\* the name add_function gives the row of addr
SubName(addr) == CASE addr = 10 -> "sub_a" [] addr = 300 -> "sub_12c"

\* C15 (as stated): the flat record tables, the called-functions table
\* included, are immutable once built: no public operation changes the row
\* count or the rows of any of them; only the memoization caches change.
C15_TablesNeverChange ==
    [][DecodedRows' = DecodedRows /\ functions' = functions]_vars

\* C15 (amended): no public operation changes the rows of a table decoded
\* from the file; the called-functions table changes only by add_function,
\* which appends the row {addr, "sub_<hex addr>"} behind the existing rows,
\* each of which keeps its index and content.
C15_TablesOnlyGrowByAddFunction ==
    [][/\ DecodedRows' = DecodedRows
       /\ \/ functions' = functions
          \/ /\ table_call'.op = "add_function"
             /\ functions' = functions \o
                    <<[address |-> table_call'.arg,
                       name |-> SubName(table_call'.arg)]>>]_vars

\* two add_function calls and a cached find_tag have happened
C15_Witness ==
    /\ table_call.op = "add_function"
    /\ Len(functions) = 2 /\ functions[1].address # functions[2].address
    /\ tags # <<>> /\ tag_cache # NoNames

(***************************************************************************)
(* Row tables.                                                             *)
(***************************************************************************)
\* the name index stored in row k of the section: the first field of the
\* bytes [header_size + k * row_size, header_size + (k + 1) * row_size)
RowNameIndex(k) ==
    ReadI32LE(row_section,
              ReadI32LE(row_section, 0).v + k * ReadI32LE(row_section, 4).v).v

\* C16: a row table is read as its 12-byte header followed by row_count rows
\* taken sequentially from right after the header, row k from the bytes
\* [header_size + k * row_size, header_size + (k + 1) * row_size); no row
\* field comes from the header bytes or from another row.
C16_RowsReadAfterHeader ==
    enum_table.op = "new" =>
        /\ enum_table.ret.ok
        /\ Len(enum_table.ret.enums) = ReadI32LE(row_section, 8).v
        /\ \A k \in 0..(Len(enum_table.ret.enums) - 1) :
              enum_table.ret.enums[k + 1]
                  = Utf8Lossy(UpToNul(SectionBytes, RowNameIndex(k)))

\* how many times row x occurs in the sequence s
Occurrences(s, x) == Cardinality({i \in 1..Len(s) : s[i] = x})

\* C17: after the first ensure_sorted_addresses / find_global call
\* address_sorted holds exactly the rows of entries (same length, same
\* multiset of rows), and entries is what the constructor built.
C17_AddressSortedHoldsEntries ==
    global_call.op # "none" =>
        /\ Len(globals.address_sorted) = Len(globals.entries)
        /\ \A x \in Range(globals.entries) \cup Range(globals.address_sorted) :
              Occurrences(globals.address_sorted, x)
                  = Occurrences(globals.entries, x)

(***************************************************************************)
(* Local resolution.                                                       *)
(***************************************************************************)
\* row i (0-based) of the locals table is live at code_addr
LiveAt(i, code_addr) ==
    /\ locals.entries[i + 1].code_start <= code_addr
    /\ code_addr < locals.entries[i + 1].code_end

\* the live rows of the window after row i, if any
LiveAfter(i, code_addr, stop_at) ==
    {j \in (i + 1)..(stop_at - 1) : LiveAt(j, code_addr)}

RECURSIVE HasConst(_)
HasConst(t) ==
    \/ t.k = "const"
    \/ t.k = "array" /\ HasConst(t.sub[1])

\* t without its CONSTs
RECURSIVE RenderBare(_)
RenderBare(t) ==
    IF t.k = "prim" THEN PrimName(t.a)
    ELSE IF t.k = "array" THEN RenderBare(t.sub[1]) \o "[]"
    ELSE RenderBare(t.sub[1])

\* one boundary for the type and all its element types: "const " once, in
\* front, iff a CONST occurs anywhere in the nesting
RenderScoped(t) == (IF HasConst(t) THEN "const " ELSE "") \o RenderBare(t)

RenderFuncScoped(f) ==
    "function " \o (IF f.ret = <<>> THEN "void" ELSE RenderScoped(f.ret[1]))
    \o " (" \o Join([i \in 1..Len(f.args) |-> RenderScoped(f.args[i][2])], ", ")
    \o ")"

\* the type decoded by the last call is the type stored at Suffix(o)
TypeCallAt(o) ==
    /\ type_call.op = "type_from_id" /\ LowNibble(type_call.arg) = 1
    /\ Payload28(type_call.arg) = o /\ o <= Len(bytes)

\* C19 (as stated): const tracking is scoped per type boundary, each
\* top-level type and each array element type being a boundary of its own:
\* "const " is prefixed to the rendering of exactly the type in whose
\* boundary the CONST was consumed.
C19_ConstPerElementType ==
    \A o \in 0..Len(bytes) :
        (TypeCallAt(o) /\ Suffix(o) \in ConstTypeBlobs) =>
            /\ type_call.ret.panic = "none"
            /\ \E t \in ConstTypeTerms :
                  Encode(t) = Suffix(o) /\ type_call.ret.text = Render(t)

\* C19 (amended): the boundaries are the top-level type and each function
\* return and argument type; the element types of an array are decoded in
\* the boundary of the array.  A boundary renders "const " once, in front of
\* its whole type, iff a CONST was consumed anywhere in it, and leaves
\* is_const as it found it; a CONST of an argument or of the return type
\* does not reach the function type or the other arguments.
C19_ConstPerBoundary ==
    /\ \A o \in 0..Len(bytes) :
          (TypeCallAt(o) /\ Suffix(o) \in ConstTypeBlobs) =>
              /\ type_call.ret.panic = "none"
              /\ ~type_call.ret.is_const
              /\ \E t \in ConstTypeTerms :
                    /\ Encode(t) = Suffix(o)
                    /\ type_call.ret.text = RenderScoped(t)
    /\ \A o \in 0..Len(bytes) :
          (TypeCallAt(o) /\ Suffix(o) \in ConstFuncBlobs) =>
              /\ type_call.ret.panic = "none"
              /\ ~type_call.ret.is_const
              /\ \E f \in ConstFuncTerms :
                    \/ /\ Suffix(o) = <<CB_FUNCTION>> \o EncodeFunc(f)
                       /\ type_call.ret.text = RenderFuncScoped(f)
                    \/ /\ Suffix(o) = <<CB_CONST, CB_FUNCTION>> \o EncodeFunc(f)
                       /\ type_call.ret.text = "const " \o RenderFuncScoped(f)
    /\ (type_call.op = "function_type_from_offset"
            /\ Suffix(type_call.arg) \in ConstFuncSigs) =>
          /\ type_call.ret.panic = "none"
          /\ ~type_call.ret.is_const
          /\ \E f \in ConstFuncTerms :
                /\ Suffix(type_call.arg) = EncodeFunc(f)
                /\ type_call.ret.text = RenderFuncScoped(f)
    /\ (TypeCallAt(0) /\ bytes = <<CB_CONST, CB_ARRAY, CB_CONST, CB_INT32>>)
          => type_call.ret.text = "const int[]"
    /\ (TypeCallAt(0) /\ bytes = <<CB_FUNCTION, 2, CB_VOID, CB_CONST, CB_INT32,
                                   CB_INT32>>)
          => type_call.ret.text = "function void (const int, int)"

\* a const array of const elements has been decoded, and so has a function
\* type with a const argument
C19_Witness ==
    /\ TypeCallAt(0)
    /\ bytes = <<CB_CONST, CB_ARRAY, CB_CONST, CB_INT32>>
    /\ type_call.ret.text = "const int[]"

\* the debug methods (1-based rows) whose pcode range, open at both ends,
\* holds code_addr
Enclosing(code_addr) ==
    {i \in 1..Len(debug_methods.v) :
        /\ debug_methods.v[i].method_index \in 0..(Len(rtti_methods.v) - 1)
        /\ rtti_methods.v[debug_methods.v[i].method_index + 1].pcode_start
              < code_addr
        /\ code_addr
              < rtti_methods.v[debug_methods.v[i].method_index + 1].pcode_end}

\* C20: with both method tables present (and every method_index a row
\* of the RTTI table) find_local takes the first debug
\* method, in table order, with pcode_start < code_addr < pcode_end (a
\* code_addr equal to pcode_start is not inside the method); when no method
\* encloses code_addr the window is the whole table [0, n).
C20_FirstEnclosingMethodOpenRange ==
    (local_call.op = "find_local" /\ debug_methods.some /\ rtti_methods.some
        /\ \A i \in 1..Len(debug_methods.v) :
              debug_methods.v[i].method_index \in 0..(Len(rtti_methods.v) - 1)) =>
        LET r  == local_call.ret
            ca == local_call.code_addr
            n  == Len(locals.entries)
        IN  /\ Enclosing(ca) = {} => r.start_at = 0 /\ r.stop_at = n
            /\ \A i \in Enclosing(ca) :
                  (\A j \in Enclosing(ca) : i <= j) =>
                      /\ r.start_at = debug_methods.v[i].first_local
                      /\ r.stop_at = IF i < Len(debug_methods.v)
                                     THEN debug_methods.v[i + 1].first_local
                                     ELSE n
            /\ (\A i \in 1..Len(debug_methods.v) :
                    rtti_methods.v[debug_methods.v[i].method_index + 1]
                        .pcode_start = ca)
                  => r.start_at = 0 /\ r.stop_at = n

\* find_local was called with code_addr at the pcode_start of the only
\* method, whose locals start at row 1, and kept the whole table
C20_Witness ==
    /\ local_call.op = "find_local" /\ local_call.code_addr = 10
    /\ debug_methods.some /\ rtti_methods.some
    /\ Len(debug_methods.v) = 1
    /\ debug_methods.v[1].method_index = 1
    /\ debug_methods.v[1].first_local = 1
    /\ Len(rtti_methods.v) >= 2
    /\ rtti_methods.v[2].pcode_start = 10
    /\ Len(locals.entries) = 3
    /\ local_call.ret.start_at = 0 /\ local_call.ret.stop_at = 3

(***************************************************************************)
(* Tag lookup.                                                             *)
(***************************************************************************)
\* the id of the tag values of the model: flag bits off, low 16 bits
IdOfValue(v) ==
    CASE v = 1 -> 1 [] v = 2 -> 2 [] v = 65537 -> 1
      [] v = TagFlags_STRUCT + 2 -> 2

\* the rows (1-based) of the tag table whose id is tag
RowsWithId(tag) == {i \in 1..Len(tags) : IdOfValue(tags[i].tag) = tag}

\* what a lookup of tag is to answer: the first such row, or None
FirstWithId(tag) ==
    IF RowsWithId(tag) = {} THEN OptNone
    ELSE OptSome(tags[CHOOSE i \in RowsWithId(tag) :
                          \A j \in RowsWithId(tag) : i <= j])

\* C21: find_tag(tag) returns the first tag in table order whose id (value
\* with the flag bits masked off, truncated to 16 bits) equals tag, or None
\* when there is none; the cache holds only found tags, each equal to what
\* the scan answers for its key, so the answer is the same from the scan and
\* from the cache; an entry, once inserted, is never replaced or removed, a
\* miss adds nothing to the cache, and the tags vector is never modified.
C21_FindTagFirstMatchCachedOnce ==
    /\ [](/\ table_call.op = "find_tag"
                => table_call.ret = FirstWithId(table_call.arg)
          /\ \A k \in DOMAIN tag_cache :
                FirstWithId(k) = OptSome(tag_cache[k]))
    /\ [][/\ tags' = tags
          /\ \A k \in DOMAIN tag_cache :
                k \in DOMAIN tag_cache' /\ tag_cache'[k] = tag_cache[k]
          /\ \A k \in DOMAIN tag_cache' \ DOMAIN tag_cache :
                /\ table_call'.op = "find_tag" /\ table_call'.arg = k
                /\ table_call'.ret.some
          /\ (table_call'.op = "find_tag" /\ ~table_call'.ret.some)
                => tag_cache' = tag_cache]_vars

\* find_tag(1) was answered with the first of two rows whose ids are both 1
\* (65537 after truncation, 1 as it is), and the answer is in the cache
C21_Witness ==
    /\ table_call.op = "find_tag" /\ table_call.arg = 1
    /\ Len(tags) = 2 /\ tags[1].tag = 65537 /\ tags[2].tag = 1
    /\ table_call.ret = OptSome(tags[1])
    /\ 1 \in DOMAIN tag_cache /\ tag_cache[1] = tags[1]

====
